---- MODULE Spec2Model ----
(***************************************************************************)
(* A model of the tile pyramid rendering and caching core of xcube-server  *)
(* (src/xcube_server/im/tiledimage.py and its caller                       *)
(* src/xcube_server/context.py).                                           *)
(*                                                                         *)
(* Tiles are small matrices of integers, so that every node of the chain   *)
(* FastNdarrayDownsamplingImage -> TransformArrayImage ->                  *)
(* ColorMappedRgbaImage computes its tile the way the code does.  The      *)
(* modules xcube_server/cache.py and xcube_server/im/tilegrid.py are not   *)
(* part of the sources; Cache and TileGrid.create are modelled from the    *)
(* specification (sections 4.2, 4.3, 5 and 8).                             *)
(***************************************************************************)
EXTENDS Integers, Sequences, FiniteSets, TLC

\* ------------------------------------------------------------- bounds

\* Width and height of the raster array the pyramid is built from.
ArrayWidth == 4
ArrayHeight == 4
\* Largest preferred tile edge handed to TileGrid.create.
MaxTileEdge == 3
\* Largest capacity of a tile cache, in cells (one cell = one array item).
MaxCapacity == 9
\* Largest size of a payload put into the stand-alone cache.
MaxPayload == 4
\* Longest level list handed to the ImagePyramid constructor.
MaxLevelList == 3

\* np.nan, the default fill value of trim_tile.
NaN == -1

\* ------------------------------------------------------------ helpers

Min(a, b) == IF a < b THEN a ELSE b
Max(a, b) == IF a > b THEN a ELSE b

RECURSIVE Pow2(_)
Pow2(n) == IF n <= 0 THEN 1 ELSE 2 * Pow2(n - 1)

\* Python's seq[a:b] on a sequence (0-based, half open, clamped, negative
\* indices counted from the end).
PySlice(s, a, b) ==
    LET n == Len(s)
        lo == IF a < 0 THEN Max(0, a + n) ELSE Min(a, n)
        hi == IF b < 0 THEN Max(0, b + n) ELSE Min(b, n)
    IN  IF hi <= lo THEN << >> ELSE SubSeq(s, lo + 1, hi)

\* Python's seq[::step].
PyStride(s, step) ==
    [i \in 1..((Len(s) + step - 1) \div step) |-> s[(i - 1) * step + 1]]

\* Python's seq[::-1].
PyReverse(s) == [i \in 1..Len(s) |-> s[Len(s) + 1 - i]]

\* A matrix is a sequence of rows; shape[-2] is the number of rows and
\* shape[-1] the number of columns.
NumRows(m) == Len(m)
NumCols(m) == IF Len(m) = 0 THEN 0 ELSE Len(m[1])
Filled(h, w, v) == [r \in 1..h |-> [c \in 1..w |-> v]]

\* ------------------------------------------------------------- tiles

\* A tile: type "ndarray" (plain array), "masked" (numpy masked array),
\* "png" (encoded bytes), "none" (Python None), "error" (an exception).
NdarrayTile(data) ==
    [type |-> "ndarray", data |-> data,
     mask |-> Filled(NumRows(data), NumCols(data), FALSE)]
MaskedTile(data, mask) == [type |-> "masked", data |-> data, mask |-> mask]
PngTile(data, mask) == [type |-> "png", data |-> data, mask |-> mask]
NoneTile == [type |-> "none", data |-> << >>, mask |-> << >>]
ErrorTile == [type |-> "error", data |-> << >>, mask |-> << >>]

\* trim_tile: the tile is padded on the right and at the bottom with
\* fill_value when too small and cropped when too large.  np.vstack raises
\* ValueError when the padding rows (expected_width wide) do not have the
\* width of the tile, i.e. when the tile is wider and lower than expected.
trim_tile(tile, expected_tile_size, fill_value) ==
    LET ew == expected_tile_size[1]
        eh == expected_tile_size[2]
        aw == NumCols(tile)
        ah == NumRows(tile)
        t1 == IF ew > aw
              THEN [r \in 1..ah |-> tile[r] \o [c \in 1..(ew - aw) |-> fill_value]]
              ELSE tile
        stackable == NumCols(t1) = ew \/ ah = 0
        t2 == IF eh > ah THEN t1 \o Filled(eh - ah, ew, fill_value) ELSE t1
        t3 == IF ew < aw \/ eh < ah
              THEN [r \in 1..Min(eh, NumRows(t2)) |-> PySlice(t2[r], 0, ew)]
              ELSE t2
    IN  IF eh > ah /\ ~stackable THEN ErrorTile ELSE NdarrayTile(t3)

\* ---------------------------------------------------------- tile grid

\* TileGrid(num_levels, num_level_zero_tiles_x, num_level_zero_tiles_y,
\*          tile_width, tile_height, geo_extent); of the geographic extent
\* the pipeline reads inv_y only.
TileGrid(num_levels, nx0, ny0, tile_width, tile_height, inv_y) ==
    [num_levels |-> num_levels,
     num_level_zero_tiles_x |-> nx0, num_level_zero_tiles_y |-> ny0,
     tile_width |-> tile_width, tile_height |-> tile_height,
     inv_y |-> inv_y]

TileGrid_tile_size(g) == <<g.tile_width, g.tile_height>>

\* The tile edges TileGrid.create may choose for a raster edge `size` and a
\* preferred edge `opt`: between half the preferred edge and the preferred
\* edge, dividing the raster edge.
TileEdges(size, opt) ==
    {ts \in ((opt + 1) \div 2)..Min(opt, size) : size % ts = 0}

RECURSIVE CommonHalvings(_, _)
CommonHalvings(qx, qy) ==
    IF qx % 2 = 0 /\ qy % 2 = 0 THEN 1 + CommonHalvings(qx \div 2, qy \div 2) ELSE 0

\* TileGrid.create(w, h, tile_width, tile_height, geo_extent): the tile size
\* is derived from the preferred one (2000 x 1000 with preferred 360 x 360
\* gives 250 x 250 tiles, 2 x 1 level-zero tiles and 3 levels); "ValueError"
\* when no decomposition exists.
TileGrid_create(w, h, tile_width, tile_height, inv_y) ==
    LET xs == TileEdges(w, tile_width)
        ys == TileEdges(h, tile_height)
    IN  IF xs = {} \/ ys = {} THEN [error |-> "ValueError"]
        ELSE LET tw == CHOOSE t \in xs : \A u \in xs : u <= t
                 th == CHOOSE t \in ys : \A u \in ys : u <= t
                 k == CommonHalvings(w \div tw, h \div th)
             IN  [error |-> "",
                  grid |-> TileGrid(k + 1, (w \div tw) \div Pow2(k),
                                    (h \div th) \div Pow2(k), tw, th, inv_y)]

\* ------------------------------------------------------------- nodes

NoSource == [kind |-> "none"]
NoCache == "none"
None == << >>

\* The fields of a tiled image; fields a class does not have keep defaults.
Node(kind, image_id, size, tile_size, num_tiles, mode, format, tile_cache, source) ==
    [kind |-> kind, id |-> image_id, size |-> size, tile_size |-> tile_size,
     num_tiles |-> num_tiles, mode |-> mode, format |-> format,
     tile_cache |-> tile_cache, source |-> source,
     step_size |-> 1, flip_y |-> FALSE, force_masked |-> FALSE,
     no_data_value |-> None, valid_range |-> None,
     value_range |-> <<0, 1>>, num_colors |-> 0, encode |-> FALSE]

CeilDiv(a, b) == (a + b - 1) \div b

\* FastNdarrayDownsamplingImage.__init__
FastNdarrayDownsamplingImage_init(arr, tile_size, step_exp, image_id, tile_cache) ==
    LET step_size == Pow2(step_exp)
        width == NumCols(arr) \div step_size
        height == NumRows(arr) \div step_size
        num_tiles == <<CeilDiv(width, tile_size[1]), CeilDiv(height, tile_size[2])>>
    IN  [Node("fast", image_id, <<width, height>>, tile_size, num_tiles,
              "float64", "", tile_cache, NoSource)
         EXCEPT !.step_size = step_size]

\* NdarrayImage.__init__
NdarrayImage_init(arr, tile_size, image_id, tile_cache) ==
    Node("ndarray", image_id, <<NumCols(arr), NumRows(arr)>>, tile_size,
         <<CeilDiv(NumCols(arr), tile_size[1]), CeilDiv(NumRows(arr), tile_size[2])>>,
         "float64", "", tile_cache, NoSource)

\* DecoratorImage.__init__: the image layout is the source image's.
DecoratorImage_init(kind, source_image, image_id, format, mode, tile_cache) ==
    Node(kind, image_id, source_image.size, source_image.tile_size,
         source_image.num_tiles,
         IF mode # "" THEN mode ELSE source_image.mode,
         IF format # "" THEN format ELSE source_image.format,
         tile_cache, source_image)

\* TransformArrayImage.__init__
TransformArrayImage_init(source_image, image_id, flip_y, force_masked, no_data_value, valid_range, tile_cache) ==
    [DecoratorImage_init("tra", source_image, image_id, "", "", tile_cache)
     EXCEPT !.flip_y = flip_y, !.force_masked = force_masked,
            !.no_data_value = no_data_value, !.valid_range = valid_range]

\* ColorMappedRgbaImage.__init__
ColorMappedRgbaImage_init(source_image, image_id, value_range, num_colors, encode, format, tile_cache) ==
    [DecoratorImage_init("rgb", source_image, image_id, format, "RGBA", tile_cache)
     EXCEPT !.value_range = value_range, !.num_colors = num_colors,
            !.encode = encode]

\* DownsamplingImage.__init__ (NdarrayDownsamplingImage): half the size and
\* half the number of tiles of the source image, the same tile size.
DownsamplingImage_init(source_image, image_id, tile_cache) ==
    Node("down", image_id,
         <<source_image.size[1] \div 2, source_image.size[2] \div 2>>,
         source_image.tile_size,
         <<source_image.num_tiles[1] \div 2, source_image.num_tiles[2] \div 2>>,
         source_image.mode, source_image.format, tile_cache, source_image)

\* AbstractTiledImage.get_tile_id: '%s/%d/%d' % (self.id, tile_x, tile_y)
get_tile_id(image, tile_x, tile_y) ==
    image.id \o "/" \o ToString(tile_x) \o "/" \o ToString(tile_y)

\* ------------------------------------------------------------- cache

\* Cache(store, capacity, threshold = ThresholdNum / ThresholdDen): the
\* entries in insertion order, oldest first.  A file-backed store is the
\* one whose reads and writes can fail.
ThresholdNum == 3
ThresholdDen == 4

Cache(capacity, file_backed) ==
    [items |-> << >>, capacity |-> capacity, file_backed |-> file_backed]

\* The size the cache records for a payload: its number of cells.
PayloadSize(value) == NumRows(value.data) * NumCols(value.data)

RECURSIVE SumSizes(_)
SumSizes(items) ==
    IF items = << >> THEN 0 ELSE items[1].size + SumSizes(Tail(items))

Cache_size(c) == SumSizes(c.items)
Cache_keys(c) == {c.items[i].key : i \in 1..Len(c.items)}
Cache_has(c, key) == key \in Cache_keys(c)
Cache_lookup(c, key) ==
    (CHOOSE i \in 1..Len(c.items) : c.items[i].key = key)

WithoutKey(items, key) == SelectSeq(items, LAMBDA it : it.key # key)

\* get(id) -> payload | absent; an I/O error of the store is a miss.
Cache_get_value(c, key, io_error) ==
    IF Cache_has(c, key) /\ ~(c.file_backed /\ io_error)
    THEN c.items[Cache_lookup(c, key)].value
    ELSE NoneTile

\* An eviction that shrinks to the capacity instead of capacity * threshold.
RECURSIVE Evict_to_capacity(_, _)
Evict_to_capacity(items, capacity) ==
    IF Len(items) <= 1 \/ SumSizes(items) <= capacity
    THEN items
    ELSE Evict_to_capacity(Tail(items), capacity)

\* The eviction of put: oldest first, never the entry just inserted (the
\* last one), until the aggregate size is at most capacity * threshold.
RECURSIVE Evict(_, _)
Evict(items, capacity) ==
    IF Len(items) <= 1 \/ SumSizes(items) * ThresholdDen <= capacity * ThresholdNum
    THEN items
    ELSE Evict(Tail(items), capacity)

\* put(id, payload): records the payload and its size (a payload stored
\* before under the same id is replaced) and, if the aggregate size now
\* exceeds the capacity, evicts.  An I/O error of the store stores nothing.
Cache_put_value(c, key, value, io_error) ==
    IF c.file_backed /\ io_error THEN c
    ELSE LET added == Append(WithoutKey(c.items, key),
                             [key |-> key, value |-> value, size |-> PayloadSize(value)])
         IN  [c EXCEPT !.items = IF SumSizes(added) > c.capacity
                                 THEN Evict(added, c.capacity) ELSE added]

\* remove(id)
Cache_remove_value(c, key) == [c EXCEPT !.items = WithoutKey(c.items, key)]

\* clear()
Cache_clear(c) == [c EXCEPT !.items = << >>]

\* ------------------------------------------------ computing the tiles

\* Comparisons of array items: every comparison with NaN is false.
ItemEq(a, b) == a # NaN /\ b # NaN /\ a = b
ItemLt(a, b) == a # NaN /\ b # NaN /\ a < b

\* np.ma.is_masked(tile): a masked array with at least one masked item.
is_masked(tile) ==
    /\ tile.type = "masked"
    /\ \E r \in 1..NumRows(tile.mask) : \E c \in 1..NumCols(tile.mask) : tile.mask[r][c]

\* The (value, mask) pairs of the items of a tile, and the array of the
\* images of the items under f, a function of such pairs.
Items(tile) ==
    {<<tile.data[r][c], tile.mask[r][c]>> :
        r \in 1..NumRows(tile.data), c \in 1..NumCols(tile.data)}
MapItems(tile, f) ==
    [r \in 1..NumRows(tile.data) |->
        [c \in 1..NumCols(tile.data) |-> f[<<tile.data[r][c], tile.mask[r][c]>>]]]

\* array[..., y:y + h, x:x + w]
Window(arr, x, y, w, h) ==
    LET rows == PySlice(arr, y, y + h)
    IN  [r \in 1..Len(rows) |-> PySlice(rows[r], x, x + w)]

\* tile[..., ::s, ::s]
Subsample(m, s) ==
    LET rows == PyStride(m, s)
    IN  [r \in 1..Len(rows) |-> PyStride(rows[r], s)]

\* FastNdarrayDownsamplingImage.compute_tile without the final trim_tile.
FastNdarrayDownsamplingImage_compute_tile_untrimmed(image, arr, rectangle) ==
    LET s == image.step_size
    IN  NdarrayTile(Subsample(Window(arr, rectangle[1] * s, rectangle[2] * s,
                                     rectangle[3] * s, rectangle[4] * s), s))

\* FastNdarrayDownsamplingImage.compute_tile
FastNdarrayDownsamplingImage_compute_tile(image, arr, rectangle) ==
    LET s == image.step_size
        tile == Window(arr, rectangle[1] * s, rectangle[2] * s,
                       rectangle[3] * s, rectangle[4] * s)
    IN  trim_tile(Subsample(tile, s), image.tile_size, NaN)

\* NdarrayImage.compute_tile
NdarrayImage_compute_tile(image, arr, rectangle) ==
    trim_tile(Window(arr, rectangle[1], rectangle[2], rectangle[3], rectangle[4]),
              image.tile_size, NaN)

\* TransformArrayImage.compute_tile_from_source_tile (force_2d unset)
TransformArrayImage_compute_tile_from_source_tile(image, tile) ==
    LET flipped == IF image.flip_y
                   THEN [tile EXCEPT !.data = PyReverse(tile.data),
                                     !.mask = PyReverse(tile.mask)]
                   ELSE tile
    IN  IF image.force_masked /\ ~is_masked(flipped)
        THEN IF image.no_data_value # None
             THEN MaskedTile(flipped.data,
                             MapItems(flipped, [p \in Items(flipped) |-> LET v == p[1] m == p[2] IN
                                 m \/ ItemEq(v, image.no_data_value[1])]))
             ELSE IF image.valid_range # None
             THEN MaskedTile(flipped.data,
                             MapItems(flipped, [p \in Items(flipped) |-> LET v == p[1] m == p[2] IN
                                 \/ m
                                 \/ ItemLt(v, image.valid_range[1])
                                 \/ ItemLt(image.valid_range[2], v)]))
             ELSE MaskedTile(flipped.data,
                             MapItems(flipped, [p \in Items(flipped) |-> LET v == p[1] m == p[2] IN m \/ v = NaN]))
        ELSE flipped

\* array.clip(value_min, value_max); NaN stays NaN.
Clip(v, value_min, value_max) ==
    IF v = NaN THEN NaN ELSE Max(value_min, Min(value_max, v))

\* self._cmap(array, bytes=True): the index of the colour of the ramp.
ColorIndex(v, value_min, value_max, num_colors) ==
    Min(num_colors - 1,
        ((Clip(v, value_min, value_max) - value_min) * num_colors)
            \div (value_max - value_min))

\* A colour mapping whose clip returns a plain array: only the NaN items
\* are transparent.
ColorMappedRgbaImage_compute_tile_from_source_tile_unmasking(image, source_tile) ==
    LET plain == NdarrayTile(source_tile.data)
        data == MapItems(plain, [p \in Items(plain) |->
                    IF p[1] = NaN THEN 0
                    ELSE ColorIndex(p[1], image.value_range[1], image.value_range[2],
                                    image.num_colors)])
        alpha0 == MapItems(plain, [p \in Items(plain) |-> p[1] = NaN])
    IN  IF image.value_range[2] = image.value_range[1] THEN ErrorTile
        ELSE IF image.encode /\ image.format # ""
        THEN PngTile(data, alpha0)
        ELSE [type |-> "image", data |-> data, mask |-> alpha0]

\* ColorMappedRgbaImage.compute_tile_from_source_tile: data holds the
\* colour index of every pixel, mask is TRUE where the pixel is fully
\* transparent (the "bad" colour, alpha 0).  The no_data_value of the
\* colour mapping is None in every construction.  A tile with no masked
\* item gets its NaN items masked (masked_invalid); in a tile with masked
\* items the mask is kept by the clip, and a NaN that is not masked gets
\* the colour below the ramp, which is the first colour.
ColorMappedRgbaImage_compute_tile_from_source_tile(image, source_tile) ==
    LET value_min == image.value_range[1]
        value_max == image.value_range[2]
        bad == IF is_masked(source_tile)
               THEN source_tile.mask
               ELSE MapItems(source_tile, [p \in Items(source_tile) |-> LET v == p[1] m == p[2] IN v = NaN])
        arr == [source_tile EXCEPT !.mask = bad]
        data == MapItems(arr, [p \in Items(arr) |-> LET v == p[1] m == p[2] IN
                    IF m \/ v = NaN THEN 0
                    ELSE ColorIndex(v, value_min, value_max, image.num_colors)])
        alpha0 == bad
    IN  IF value_max = value_min THEN ErrorTile
        ELSE IF image.encode /\ image.format # ""
        THEN PngTile(data, alpha0)
        ELSE [type |-> "image", data |-> data, mask |-> alpha0]

\* downsample_ndarray(tile, aggregator=aggregate_ndarray_first)
downsample_ndarray(tile) == Subsample(tile.data, 2)

\* target_tile[..., agg_y:agg_y + agg_h, agg_x:agg_x + agg_w] = agg_tile
Paste(target, agg, agg_x, agg_y) ==
    [r \in 1..NumRows(target) |-> [c \in 1..NumCols(target) |->
        IF /\ r - agg_y \in 1..NumRows(agg)
           /\ c - agg_x \in 1..NumCols(agg)
        THEN agg[r - agg_y][c - agg_x] ELSE target[r][c]]]

\* np.empty_like: an item nothing has been written to.
Uninitialized == -2

\* NdarrayDownsamplingImage.aggregate_and_stitch_source_tiles
NdarrayDownsamplingImage_aggregate_and_stitch_source_tiles(source_tiles, target_size, target_positions) ==
    LET proto == source_tiles[1]
        t0 == Filled(NumRows(proto.data), NumCols(proto.data), Uninitialized)
        t1 == Paste(t0, downsample_ndarray(source_tiles[1]),
                    target_positions[1][1], target_positions[1][2])
        t2 == Paste(t1, downsample_ndarray(source_tiles[2]),
                    target_positions[2][1], target_positions[2][2])
        t3 == Paste(t2, downsample_ndarray(source_tiles[3]),
                    target_positions[3][1], target_positions[3][2])
        t4 == Paste(t3, downsample_ndarray(source_tiles[4]),
                    target_positions[4][1], target_positions[4][2])
    IN  NdarrayTile(t4)

\* ----------------------------------------------------------- get_tile

\* The result of a get_tile or compute_tile call: the tile, the caches as
\* the call leaves them, and the compute_tile invocations it made.
Result(tile, cs, log) == [tile |-> tile, caches |-> cs, log |-> log]

Raised(tile) == tile.type = "error"

RECURSIVE OpImage_get_tile(_, _, _, _, _, _)
RECURSIVE compute_tile(_, _, _, _, _, _, _)

\* DecoratorImage.compute_tile with the colour mapping done in place on the
\* source tile (clip(..., out=source_tile), -=, *=): the entry the source
\* image cached is the very array that is overwritten.
DecoratorImage_compute_tile_in_place(image, arr, tile_x, tile_y, rectangle, cs, io) ==
    LET src == OpImage_get_tile(image.source, arr, tile_x, tile_y, cs, io)
        c == image.source.tile_cache
        key == get_tile_id(image.source, tile_x, tile_y)
        scaled == [src.tile EXCEPT !.data =
                      MapItems(src.tile, [p \in Items(src.tile) |-> LET v == p[1] m == p[2] IN
                          IF v = NaN THEN NaN
                          ELSE Clip(v, image.value_range[1], image.value_range[2])
                               - image.value_range[1]])]
        overwritten ==
            IF c # NoCache
            THEN [src.caches EXCEPT ![c].items =
                     [i \in 1..Len(@) |->
                         IF @[i].key = key THEN [@[i] EXCEPT !.value = scaled] ELSE @[i]]]
            ELSE src.caches
    IN  IF Raised(src.tile) \/ src.tile.type = "none" THEN src
        ELSE Result(ColorMappedRgbaImage_compute_tile_from_source_tile(image, src.tile),
                    overwritten, src.log)

\* DecoratorImage.compute_tile
DecoratorImage_compute_tile(image, arr, tile_x, tile_y, rectangle, cs, io) ==
    LET src == OpImage_get_tile(image.source, arr, tile_x, tile_y, cs, io)
    IN  IF Raised(src.tile) \/ src.tile.type = "none" THEN src
        ELSE Result(ColorMappedRgbaImage_compute_tile_from_source_tile(image, src.tile),
                    src.caches, src.log)

\* The source tile row without the mirroring of flip_y.
SourceTileY_same_row(image, tile_y) == tile_y

\* The row of the source tile a TransformArrayImage fetches.
SourceTileY(image, tile_y) ==
    IF image.kind = "tra" /\ image.flip_y THEN image.num_tiles[2] - 1 - tile_y ELSE tile_y

\* TransformArrayImage.compute_tile: with flip_y the source tile row and
\* the rectangle are mirrored.
TransformArrayImage_compute_tile(image, arr, tile_x, tile_y, rectangle, cs, io) ==
    LET y2 == SourceTileY(image, tile_y)
        src == OpImage_get_tile(image.source, arr, tile_x, y2, cs, io)
    IN  IF Raised(src.tile) \/ src.tile.type = "none" THEN src
        ELSE Result(TransformArrayImage_compute_tile_from_source_tile(image, src.tile),
                    src.caches, src.log)

\* DownsamplingImage.compute_tile: the four source tiles are fetched in
\* the order (2x, 2y), (2x, 2y+1), (2x+1, 2y), (2x+1, 2y+1).
DownsamplingImage_compute_tile(image, arr, tile_x, tile_y, rectangle, cs, io) ==
    LET sx == 2 * tile_x
        sy == 2 * tile_y
        a == OpImage_get_tile(image.source, arr, sx, sy, cs, io)
        b == OpImage_get_tile(image.source, arr, sx, sy + 1, a.caches, io)
        c == OpImage_get_tile(image.source, arr, sx + 1, sy, b.caches, io)
        d == OpImage_get_tile(image.source, arr, sx + 1, sy + 1, c.caches, io)
        tw == image.tile_size[1]
        th == image.tile_size[2]
        target_positions == << <<0, 0>>, <<0, th \div 2>>,
                               <<tw \div 2, 0>>, <<tw \div 2, th \div 2>> >>
        log == a.log \o b.log \o c.log \o d.log
    IN  IF \E t \in {a.tile, b.tile, c.tile, d.tile} : Raised(t)
        THEN Result(ErrorTile, d.caches, log)
        ELSE Result(NdarrayDownsamplingImage_aggregate_and_stitch_source_tiles(
                        <<a.tile, b.tile, c.tile, d.tile>>, <<tw, th>>, target_positions),
                    d.caches, log)

\* compute_tile, dispatched on the class of the image.
compute_tile(image, arr, tile_x, tile_y, rectangle, cs, io) ==
    CASE image.kind = "fast" ->
           Result(FastNdarrayDownsamplingImage_compute_tile(image, arr, rectangle), cs, << >>)
      [] image.kind = "ndarray" ->
           Result(NdarrayImage_compute_tile(image, arr, rectangle), cs, << >>)
      [] image.kind = "tra" ->
           TransformArrayImage_compute_tile(image, arr, tile_x, tile_y, rectangle, cs, io)
      [] image.kind = "rgb" ->
           DecoratorImage_compute_tile(image, arr, tile_x, tile_y, rectangle, cs, io)
      [] image.kind = "down" ->
           DownsamplingImage_compute_tile(image, arr, tile_x, tile_y, rectangle, cs, io)

\* The rectangle in tile coordinates instead of pixel coordinates.
TileRectangle_unscaled(image, tile_x, tile_y) ==
    <<tile_x, tile_y, image.tile_size[1], image.tile_size[2]>>

\* The rectangle OpImage.get_tile hands to compute_tile.
TileRectangle(image, tile_x, tile_y) ==
    <<image.tile_size[1] * tile_x, image.tile_size[2] * tile_y,
      image.tile_size[1], image.tile_size[2]>>

\* OpImage.get_tile without the early return of the cached tile.
OpImage_get_tile_no_early_return(image, arr, tile_x, tile_y, cs, io) ==
    LET cached == image.tile_cache # NoCache
        tile_id == get_tile_id(image, tile_x, tile_y)
        rectangle == TileRectangle(image, tile_x, tile_y)
        r == compute_tile(image, arr, tile_x, tile_y, rectangle, cs, io)
        log == Append(r.log, [id |-> image.id, tile_x |-> tile_x,
                              tile_y |-> tile_y, rectangle |-> rectangle])
    IN  IF Raised(r.tile) \/ ~cached THEN Result(r.tile, r.caches, log)
        ELSE Result(r.tile,
                    [r.caches EXCEPT ![image.tile_cache] =
                        Cache_put_value(@, tile_id, r.tile, io.put)],
                    log)

\* OpImage.get_tile returning what the cache holds after the store step.
OpImage_get_tile_read_back(image, arr, tile_x, tile_y, cs, io) ==
    LET cached == image.tile_cache # NoCache
        tile_id == get_tile_id(image, tile_x, tile_y)
        found == IF cached THEN Cache_get_value(cs[image.tile_cache], tile_id, io.get)
                 ELSE NoneTile
        rectangle == TileRectangle(image, tile_x, tile_y)
        r == compute_tile(image, arr, tile_x, tile_y, rectangle, cs, io)
        log == Append(r.log, [id |-> image.id, tile_x |-> tile_x,
                              tile_y |-> tile_y, rectangle |-> rectangle])
        stored == [r.caches EXCEPT ![image.tile_cache] =
                      Cache_put_value(@, tile_id, r.tile, io.put)]
    IN  IF found # NoneTile THEN Result(found, cs, << >>)
        ELSE IF Raised(r.tile) \/ ~cached THEN Result(r.tile, r.caches, log)
        ELSE Result(Cache_get_value(stored[image.tile_cache], tile_id, FALSE),
                    stored, log)

\* OpImage.get_tile: the cached tile if the attached cache has one, else the
\* computed tile, stored in the attached cache.  io.get and io.put say
\* whether the file-backed store fails in the lookup and in the store step.
OpImage_get_tile(image, arr, tile_x, tile_y, cs, io) ==
    LET cached == image.tile_cache # NoCache
        tile_id == get_tile_id(image, tile_x, tile_y)
        hit == IF cached
               THEN Cache_get_value(cs[image.tile_cache], tile_id, io.get)
               ELSE NoneTile
    IN  IF cached /\ hit.type # "none" THEN Result(hit, cs, << >>)
        ELSE LET rectangle == TileRectangle(image, tile_x, tile_y)
                 r == compute_tile(image, arr, tile_x, tile_y, rectangle, cs, io)
                 log == Append(r.log, [id |-> image.id, tile_x |-> tile_x,
                                       tile_y |-> tile_y, rectangle |-> rectangle])
             IN  IF Raised(r.tile) THEN Result(r.tile, r.caches, log)
                 ELSE IF cached
                 THEN Result(r.tile,
                             [r.caches EXCEPT ![image.tile_cache] =
                                 Cache_put_value(@, tile_id, r.tile, io.put)],
                             log)
                 ELSE Result(r.tile, r.caches, log)

\* OpImage.dispose: removes the entries of the tiles of this image from
\* the cache attached to this image.
RECURSIVE RemoveKeys(_, _)
RemoveKeys(c, keys) ==
    IF keys = {} THEN c
    ELSE LET k == CHOOSE k \in keys : TRUE
         IN  RemoveKeys(Cache_remove_value(c, k), keys \ {k})

OpImage_dispose(image, cs) ==
    IF image.tile_cache = NoCache THEN cs
    ELSE [cs EXCEPT ![image.tile_cache] =
            RemoveKeys(@, {get_tile_id(image, tile_x, tile_y) :
                              tile_x \in 0..(image.num_tiles[1] - 1),
                              tile_y \in 0..(image.num_tiles[2] - 1)})]

\* ------------------------------------------------------------ pyramid

NoPyramid == [error |-> "none"]

\* ImagePyramid.__init__ without the check of the number of levels.
ImagePyramid_init_unchecked(tile_grid, level_images) ==
    [error |-> "", tile_grid |-> tile_grid, level_images |-> level_images]

\* ImagePyramid.__init__
ImagePyramid_init(tile_grid, level_images) ==
    IF tile_grid.num_levels # Len(level_images)
    THEN [error |-> "ValueError"]
    ELSE [error |-> "", tile_grid |-> tile_grid, level_images |-> level_images]

IsPyramid(p) == p.error = ""

\* ImagePyramid.create_from_array with step_exp counted from level 0.
ImagePyramid_create_from_array_ascending(arr, tile_grid, level_image_id_factory, tile_cache) ==
    ImagePyramid_init(tile_grid,
        [z \in 1..tile_grid.num_levels |->
            FastNdarrayDownsamplingImage_init(arr, TileGrid_tile_size(tile_grid),
                z - 1, level_image_id_factory[z - 1], tile_cache)])

\* ImagePyramid.create_from_array: level z_index is a direct-strided image
\* over the array with step_exp = num_levels - 1 - z_index.
ImagePyramid_create_from_array(arr, tile_grid, level_image_id_factory, tile_cache) ==
    LET num_levels == tile_grid.num_levels
        level_images ==
            [z \in 1..num_levels |->
                FastNdarrayDownsamplingImage_init(arr, TileGrid_tile_size(tile_grid),
                    num_levels - z, level_image_id_factory[z - 1], tile_cache)]
    IN  ImagePyramid_init(tile_grid, level_images)

\* level_transformer = create_ndarray_downsampling_image, applied i times
\* to the source image; the image of step i has the id '%s/%d' of the
\* source image id and its level index.
RECURSIVE TransformedLevel(_, _, _, _)
TransformedLevel(source_image, i, z_index_max, tile_cache) ==
    IF i = 0 THEN source_image
    ELSE DownsamplingImage_init(
             TransformedLevel(source_image, i - 1, z_index_max, tile_cache),
             source_image.id \o "/" \o ToString(z_index_max - i), tile_cache)

\* ImagePyramid.create_from_image
ImagePyramid_create_from_image(source_image, inv_y, tile_cache) ==
    LET created == TileGrid_create(source_image.size[1], source_image.size[2],
                                   source_image.tile_size[1], source_image.tile_size[2],
                                   inv_y)
    IN  IF created.error # "" THEN [error |-> created.error]
        ELSE LET num_levels == created.grid.num_levels
                 level_images ==
                     [z \in 1..num_levels |->
                         TransformedLevel(source_image, num_levels - z,
                                          num_levels - 1, tile_cache)]
             IN  ImagePyramid_init(created.grid, level_images)

\* ImagePyramid.apply that hands the level images to the level mapper in
\* the reverse order.
ImagePyramid_apply_reversed(pyramid, level_mapper) ==
    ImagePyramid_init(pyramid.tile_grid,
        [i \in 1..Len(pyramid.level_images) |->
            level_mapper[<<pyramid.level_images[Len(pyramid.level_images) + 1 - i],
                           Len(pyramid.level_images) - i>>]])

\* ImagePyramid.apply
ImagePyramid_apply(pyramid, level_mapper) ==
    ImagePyramid_init(pyramid.tile_grid,
        [i \in 1..Len(pyramid.level_images) |->
            level_mapper[<<pyramid.level_images[i], i - 1>>]])

\* ImagePyramid.get_tile
ImagePyramid_get_tile(pyramid, arr, tile_x, tile_y, z_index, cs, io) ==
    OpImage_get_tile(pyramid.level_images[z_index + 1], arr, tile_x, tile_y, cs, io)

\* ImagePyramid.dispose
RECURSIVE DisposeLevels(_, _)
DisposeLevels(level_images, cs) ==
    IF level_images = << >> THEN cs
    ELSE DisposeLevels(Tail(level_images), OpImage_dispose(level_images[1], cs))

ImagePyramid_dispose(pyramid, cs) == DisposeLevels(pyramid.level_images, cs)

\* ------------------------------------------------------------ service

\* Number of colours of the colour ramp (num_colors).
NumColors == 4

\* The raster of the variable: distinct values, the no-data value in the
\* first item and a NaN in the last one.
NoDataValue == 1
SourceArray ==
    [r \in 1..ArrayHeight |-> [c \in 1..ArrayWidth |->
        IF r = ArrayHeight /\ c = ArrayWidth THEN NaN
        ELSE (r - 1) * ArrayWidth + c]]

\* (cmap_vmin, cmap_vmax) of the request.
ValueRange == <<NoDataValue + 1, ArrayWidth * ArrayHeight - 1>>

ArrayId == "demo-conc_tsm-"
ImageId == ArrayId \o "-jet-" \o ToString(ValueRange[1]) \o "-" \o ToString(ValueRange[2])

\* compute_tile_grid whose fallback grid is one square tile.
compute_tile_grid_square_fallback(arr, preferred, inv_y) ==
    LET created == TileGrid_create(NumCols(arr), NumRows(arr), preferred, preferred, inv_y)
    IN  IF created.error = "" THEN created.grid
        ELSE TileGrid(1, 1, 1, NumCols(arr), NumCols(arr), inv_y)

\* compute_tile_grid(var): TileGrid.create with the preferred tile edge,
\* and the single-level grid when that raises ValueError.
compute_tile_grid(arr, preferred, inv_y) ==
    LET width == NumCols(arr)
        height == NumRows(arr)
        created == TileGrid_create(width, height, preferred, preferred, inv_y)
    IN  IF created.error = "" THEN created.grid
        ELSE TileGrid(1, 1, 1, width, height, inv_y)

\* array_image_id_factory of get_dataset_tile
array_image_id_factory(level) == "arr-" \o ArrayId \o "/" \o ToString(level)

\* The level mappers of get_dataset_tile: the array transform cached in
\* mem_tile_cache, the colour mapping cached in rgb_tile_cache, which is
\* None unless FILE_TILE_CACHE_ENABLED.
TransformMapper(image, level, inv_y) ==
    TransformArrayImage_init(image, "tra-" \o ArrayId \o "/" \o ToString(level),
                             inv_y, TRUE, <<NoDataValue>>, None, "mem")

ColorMapper(image, level, file_cache_enabled) ==
    ColorMappedRgbaImage_init(image, "rgb-" \o ImageId \o "/" \o ToString(level),
                              ValueRange, NumColors, TRUE, "PNG",
                              IF file_cache_enabled THEN "rgb" ELSE NoCache)

\* ------------------------------------------------------ state machine

VARIABLES
    cfg,       \* inv_y of the extent, FILE_TILE_CACHE_ENABLED, cache capacity
    array,     \* the raster array
    pyramid,   \* the pyramid of the request parameters, or NoPyramid
    caches,    \* mem_tile_cache and rgb_tile_cache of the service context
    last,      \* the last call: its operation, arguments and result
    threads    \* the get_tile calls running in the worker threads

vars == <<cfg, array, pyramid, caches, last, threads>>

Capacities == {MaxCapacity \div 3, MaxCapacity}
TileEdgePrefs == {MaxTileEdge - 1, MaxTileEdge}

\* A call record.  For a get_tile call it also says what the call found:
\*   cached   the image of the requested level has a cache attached,
\*   hit      that cache held an entry under the key of the tile,
\*   entry    the entry it held,
\*   changed  the call changed the contents of a cache,
\*   how      "again" when the call repeats the previous call with no
\*            modification of the caches in between, "after_eviction"
\*            when it repeats it after the entry of the tile was evicted,
\*   before   the tile the previous call returned (for those two),
\*   io       the I/O errors the file store met during the call,
\* and for a put of the cache: key, added (the aggregate size with the new
\* entry, before any eviction) and dropped (the keys the put evicted),
\* and afterwards: touched (a cache was modified since the call) and
\* evicted (the entry of the tile was evicted since the call).
NoFault == [get |-> FALSE, put |-> FALSE]
Call(op, req, tile, log, error) ==
    [op |-> op, req |-> req, tile |-> tile, log |-> log, error |-> error,
     cached |-> FALSE, hit |-> FALSE, entry |-> NoneTile, changed |-> FALSE,
     how |-> "first", before |-> NoneTile,
     touched |-> FALSE, evicted |-> FALSE, io |-> NoFault,
     key |-> "", added |-> 0, dropped |-> {}]
NoCall(op) == Call(op, <<0, 0, 0>>, NoneTile, << >>, "")

\* The worker threads of the thread pool that run get_tile calls.  A
\* thread holds the stack of its get_tile calls (the innermost last), each
\* a frame with the image, the tile and where the call is:
\*   "lookup"     about to query the attached cache,
\*   "compute"    about to call compute_tile,
\*   "await"      waiting for the tile of the source image,
\*   "transform"  holding the source tile, about to transform it,
\*   "store"      holding the computed tile, about to store it;
\* computes counts the compute_tile calls on the requested image.
Threads == {1, 2}
Idle == [stack |-> << >>, tile |-> NoneTile, status |-> "idle", computes |-> 0]
Frame(image, tile_x, tile_y) ==
    [image |-> image, tile_x |-> tile_x, tile_y |-> tile_y, tile |-> NoneTile,
     pc |-> IF image.tile_cache # NoCache THEN "lookup" ELSE "compute"]

\* ServiceContext.__init__
Init ==
    /\ cfg \in [inv_y : BOOLEAN, file_cache_enabled : BOOLEAN, capacity : Capacities]
    /\ array = SourceArray
    /\ pyramid = NoPyramid
    /\ caches = [mem |-> Cache(cfg.capacity, FALSE), rgb |-> Cache(cfg.capacity, TRUE)]
    /\ last = NoCall("init")
    /\ threads = [t \in Threads |-> Idle]

\* get_dataset_tile, first step: the pyramid over the array.
CreateFromArray(preferred) ==
    /\ pyramid = NoPyramid
    /\ pyramid' = ImagePyramid_create_from_array(array,
                      compute_tile_grid(array, preferred, cfg.inv_y),
                      [level \in 0..Max(ArrayWidth, ArrayHeight) |->
                          array_image_id_factory(level)],
                      NoCache)
    /\ last' = NoCall("create_from_array")
    /\ UNCHANGED <<threads, cfg, array, caches>>

\* A pyramid from one full-resolution NdarrayImage; TileGrid.create may
\* raise ValueError, which leaves no pyramid.
CreateFromImage(preferred) ==
    LET source_image == NdarrayImage_init(array, <<preferred, preferred>>,
                                          "img-" \o ArrayId, NoCache)
        created == ImagePyramid_create_from_image(source_image, cfg.inv_y, NoCache)
    IN  /\ pyramid = NoPyramid
        /\ pyramid' = IF IsPyramid(created) THEN created ELSE NoPyramid
        /\ last' = [NoCall("create_from_image") EXCEPT !.error = created.error]
        /\ UNCHANGED <<threads, cfg, array, caches>>

\* ImagePyramid(tile_grid, level_images) with a level list of any length.
Construct(preferred, n) ==
    LET tile_grid == compute_tile_grid(array, preferred, cfg.inv_y)
        level_images ==
            [z \in 1..n |->
                FastNdarrayDownsamplingImage_init(array, TileGrid_tile_size(tile_grid),
                    0, array_image_id_factory(z - 1), NoCache)]
        created == ImagePyramid_init(tile_grid, level_images)
    IN  /\ pyramid = NoPyramid
        /\ pyramid' = IF IsPyramid(created) THEN created ELSE NoPyramid
        /\ last' = [NoCall("construct") EXCEPT !.error = created.error,
                                               !.req = <<n, tile_grid.num_levels, 0>>]
        /\ UNCHANGED <<threads, cfg, array, caches>>

\* The (image, level) pairs apply calls its level mapper with.
LevelArgs(p) == {<<p.level_images[i], i - 1>> : i \in 1..Len(p.level_images)}

TopKind == IF IsPyramid(pyramid) THEN pyramid.level_images[1].kind ELSE "none"

\* pyramid.apply(TransformArrayImage ...)
ApplyTransform ==
    /\ IsPyramid(pyramid)
    /\ TopKind \in {"fast", "ndarray", "down"}
    /\ pyramid' = ImagePyramid_apply(pyramid,
                      [a \in LevelArgs(pyramid) |->
                          TransformMapper(a[1], a[2], pyramid.tile_grid.inv_y)])
    /\ last' = NoCall("apply")
    /\ UNCHANGED <<threads, cfg, array, caches>>

\* pyramid.apply(ColorMappedRgbaImage ...)
ApplyColorMap ==
    /\ IsPyramid(pyramid)
    /\ TopKind # "rgb"
    /\ pyramid' = ImagePyramid_apply(pyramid,
                      [a \in LevelArgs(pyramid) |->
                          ColorMapper(a[1], a[2], cfg.file_cache_enabled)])
    /\ last' = NoCall("apply")
    /\ UNCHANGED <<threads, cfg, array, caches>>

\* The tiles of level z_index a client of the tile grid asks for.
TilesX(g, z_index) == 0..(g.num_level_zero_tiles_x * Pow2(z_index) - 1)
TilesY(g, z_index) == 0..(g.num_level_zero_tiles_y * Pow2(z_index) - 1)
Requests(p) ==
    {<<x, y, z>> \in (0..ArrayWidth) \X (0..ArrayHeight) \X (0..(p.tile_grid.num_levels - 1)) :
        x \in TilesX(p.tile_grid, z) /\ y \in TilesY(p.tile_grid, z)}

\* The image and the cache key a request addresses.
LevelImage(p, req) == p.level_images[req[3] + 1]
TileKey(p, req) == get_tile_id(LevelImage(p, req), req[1], req[2])
HasEntry(p, req, cs) ==
    /\ LevelImage(p, req).tile_cache # NoCache
    /\ Cache_has(cs[LevelImage(p, req).tile_cache], TileKey(p, req))

\* pyramid.get_tile(x, y, z)
GetTile(x, y, z, io) ==
    /\ IsPyramid(pyramid)
    /\ <<x, y, z>> \in Requests(pyramid)
    /\ LET req == <<x, y, z>>
           image == LevelImage(pyramid, req)
           r == ImagePyramid_get_tile(pyramid, array, x, y, z, caches, io)
           repeats == last.op = "get_tile" /\ last.req = req
       IN  /\ caches' = r.caches
           /\ last' = [Call("get_tile", req, r.tile, r.log,
                            IF Raised(r.tile) THEN "error" ELSE "")
                       EXCEPT !.cached = image.tile_cache # NoCache,
                              !.hit = HasEntry(pyramid, req, caches),
                              !.entry = IF HasEntry(pyramid, req, caches)
                                        THEN Cache_get_value(caches[image.tile_cache],
                                                 TileKey(pyramid, req), FALSE)
                                        ELSE NoneTile,
                              !.changed = r.caches # caches,
                              !.how = IF repeats /\ ~last.touched THEN "again"
                                      ELSE IF repeats /\ last.evicted THEN "after_eviction"
                                      ELSE "first",
                              !.before = IF repeats THEN last.tile ELSE NoneTile,
                              !.io = io]
    /\ UNCHANGED <<threads, cfg, array, pyramid>>

\* pyramid.dispose()
Dispose ==
    /\ IsPyramid(pyramid)
    /\ caches' = ImagePyramid_dispose(pyramid, caches)
    /\ last' = NoCall("dispose")
    /\ UNCHANGED <<threads, cfg, array, pyramid>>

\* Another pyramid of the service context puts one of its tiles into a
\* shared cache, which may evict entries of this pyramid.
OtherTile == NdarrayTile(Filled(1, MaxPayload, 0))
OtherPut(c) ==
    /\ IsPyramid(pyramid)
    /\ c = "rgb" => cfg.file_cache_enabled
    /\ caches' = [caches EXCEPT ![c] = Cache_put_value(@, "other/0/0", OtherTile, FALSE)]
    /\ last' = [last EXCEPT
                   !.touched = TRUE,
                   !.evicted = \/ @
                               \/ /\ last.op = "get_tile"
                                  /\ HasEntry(pyramid, last.req, caches)
                                  /\ ~HasEntry(pyramid, last.req, caches')]
    /\ UNCHANGED <<threads, cfg, array, pyramid>>

Next ==
    \/ \E e \in TileEdgePrefs : CreateFromArray(e)
    \/ \E e \in TileEdgePrefs : CreateFromImage(e)
    \/ \E e \in TileEdgePrefs : \E n \in 0..MaxLevelList : Construct(e, n)
    \/ ApplyTransform
    \/ ApplyColorMap
    \/ \E x \in 0..ArrayWidth, y \in 0..ArrayHeight, z \in 0..MaxLevelList :
          GetTile(x, y, z, NoFault)
    \/ Dispose
    \/ \E c \in {"mem", "rgb"} : OtherPut(c)

Spec == Init /\ [][Next]_vars

\* The service's pyramid with a file store that may fail with an I/O error
\* in the lookup and in the store step of any get_tile call.
Faults == [get : BOOLEAN, put : BOOLEAN]
\* The I/O errors a request can meet: none unless the image it addresses
\* has the file-backed cache attached.
FaultsAt(req) ==
    IF /\ IsPyramid(pyramid)
       /\ req \in Requests(pyramid)
       /\ LevelImage(pyramid, req).tile_cache # NoCache
       /\ caches[LevelImage(pyramid, req).tile_cache].file_backed
    THEN Faults ELSE {NoFault}
NextFault ==
    \/ \E e \in TileEdgePrefs : CreateFromArray(e)
    \/ ApplyTransform
    \/ ApplyColorMap
    \/ \E x \in 0..ArrayWidth, y \in 0..ArrayHeight, z \in 0..MaxLevelList :
          \E io \in FaultsAt(<<x, y, z>>) : GetTile(x, y, z, io)
    \/ Dispose

\* The service with the file tile cache enabled and the smaller capacity.
InitFault ==
    /\ Init
    /\ cfg.file_cache_enabled
    /\ cfg.capacity = MaxCapacity \div 3

SpecFault == InitFault /\ [][NextFault]_vars

\* The memory tile cache on its own: entries of any size up to MaxPayload
\* under a few keys.
CacheKeys == {"a", "b", "c"}
Payload(n) == NdarrayTile(Filled(1, n, 0))

InitCache ==
    /\ Init
    /\ ~cfg.inv_y
    /\ ~cfg.file_cache_enabled

CachePut(key, n) ==
    /\ caches' = [caches EXCEPT !.mem = Cache_put_value(@, key, Payload(n), FALSE)]
    /\ last' = [Call("put", <<0, 0, 0>>, Payload(n), << >>, "") EXCEPT
                   !.key = key,
                   !.added = SumSizes(WithoutKey(caches.mem.items, key)) + n,
                   !.dropped = (Cache_keys(caches.mem) \ {key}) \ Cache_keys(caches'.mem)]
    /\ UNCHANGED <<threads, cfg, array, pyramid>>

CacheGet(key) ==
    /\ last' = [Call("get", <<0, 0, 0>>, Cache_get_value(caches.mem, key, FALSE), << >>, "")
                 EXCEPT !.key = key]
    /\ UNCHANGED <<threads, cfg, array, pyramid, caches>>

CacheRemove(key) ==
    /\ caches' = [caches EXCEPT !.mem = Cache_remove_value(@, key)]
    /\ last' = [NoCall("remove") EXCEPT !.key = key]
    /\ UNCHANGED <<threads, cfg, array, pyramid>>

CacheClear ==
    /\ caches' = [caches EXCEPT !.mem = Cache_clear(@)]
    /\ last' = NoCall("clear")
    /\ UNCHANGED <<threads, cfg, array, pyramid>>

NextCache ==
    \/ \E key \in CacheKeys, n \in 1..MaxPayload : CachePut(key, n)
    \/ \E key \in CacheKeys : CacheGet(key)
    \/ \E key \in CacheKeys : CacheRemove(key)
    \/ CacheClear

SpecCache == InitCache /\ [][NextCache]_vars

\* ------------------------------------------- concurrent get_tile calls

Top(th) == th.stack[Len(th.stack)]
SetTop(th, frame) == [th EXCEPT !.stack[Len(th.stack)] = frame]
At(t, pc) ==
    /\ threads[t].status = "running"
    /\ Top(threads[t]).pc = pc

\* A get_tile call returns tile: to the compute_tile that asked for the
\* source tile, or to the handler.
Return(th, tile) ==
    LET rest == SubSeq(th.stack, 1, Len(th.stack) - 1)
    IN  IF rest = << >>
        THEN [th EXCEPT !.stack = << >>, !.tile = tile, !.status = "done"]
        ELSE [th EXCEPT !.stack =
                 [rest EXCEPT ![Len(rest)] = [@ EXCEPT !.pc = "transform", !.tile = tile]]]

\* compute_tile has returned tile: it is stored if a cache is attached,
\* and returned.
Computed(th, tile) ==
    LET counted == IF Len(th.stack) = 1 THEN [th EXCEPT !.computes = @ + 1] ELSE th
    IN  IF Top(th).image.tile_cache # NoCache
        THEN SetTop(counted, [Top(th) EXCEPT !.pc = "store", !.tile = tile])
        ELSE Return(counted, tile)

\* compute_tile_from_source_tile, dispatched on the class of the image.
compute_tile_from_source_tile(image, tile) ==
    IF tile.type \in {"none", "error"} THEN tile
    ELSE IF image.kind = "tra"
    THEN TransformArrayImage_compute_tile_from_source_tile(image, tile)
    ELSE ColorMappedRgbaImage_compute_tile_from_source_tile(image, tile)

\* The tile request handler hands the same request to two worker threads.
Submit(x, y, z) ==
    /\ IsPyramid(pyramid)
    /\ <<x, y, z>> \in Requests(pyramid)
    /\ \A t \in Threads : threads[t].status # "running"
    /\ threads' = [t \in Threads |->
                      [Idle EXCEPT !.status = "running",
                                   !.stack = <<Frame(LevelImage(pyramid, <<x, y, z>>), x, y)>>]]
    /\ last' = [Call("submit", <<x, y, z>>, NoneTile, << >>, "")
                EXCEPT !.cached = LevelImage(pyramid, <<x, y, z>>).tile_cache # NoCache,
                       !.hit = HasEntry(pyramid, <<x, y, z>>, caches)]
    /\ UNCHANGED <<cfg, array, pyramid, caches>>

\* tile_cache.get_value(tile_id)
Lookup(t) ==
    /\ At(t, "lookup")
    /\ LET th == threads[t]
           top == Top(th)
           found == Cache_get_value(caches[top.image.tile_cache],
                                    get_tile_id(top.image, top.tile_x, top.tile_y), FALSE)
       IN  threads' = [threads EXCEPT ![t] =
                          IF found # NoneTile THEN Return(th, found)
                          ELSE SetTop(th, [top EXCEPT !.pc = "compute"])]
    /\ UNCHANGED <<cfg, array, pyramid, caches, last>>

\* compute_tile: an array image computes the tile, a decorator asks its
\* source image for the source tile.
ComputeTile(t) ==
    /\ At(t, "compute")
    /\ LET th == threads[t]
           top == Top(th)
       IN  threads' = [threads EXCEPT ![t] =
              IF top.image.source = NoSource
              THEN Computed(th, compute_tile(top.image, array, top.tile_x, top.tile_y,
                                    TileRectangle(top.image, top.tile_x, top.tile_y),
                                    caches, NoFault).tile)
              ELSE [th EXCEPT !.stack =
                       Append(SetTop(th, [top EXCEPT !.pc = "await"]).stack,
                              Frame(top.image.source, top.tile_x,
                                    SourceTileY(top.image, top.tile_y)))]]
    /\ UNCHANGED <<cfg, array, pyramid, caches, last>>

\* compute_tile_from_source_tile with the colour mapping done in place on
\* the source tile, which is the array the source image cached.
Transform_in_place(t) ==
    /\ At(t, "transform")
    /\ LET th == threads[t]
           top == Top(th)
           c == top.image.source.tile_cache
           key == get_tile_id(top.image.source, top.tile_x, top.tile_y)
           scaled == [top.tile EXCEPT !.data =
                         MapItems(top.tile, [p \in Items(top.tile) |-> LET v == p[1] m == p[2] IN
                             IF v = NaN THEN NaN
                             ELSE Clip(v, top.image.value_range[1], top.image.value_range[2])
                                  - top.image.value_range[1]])]
       IN  /\ threads' = [threads EXCEPT ![t] =
                             Computed(th, compute_tile_from_source_tile(top.image, top.tile))]
           /\ caches' = IF c # NoCache /\ top.image.kind = "rgb"
                        THEN [caches EXCEPT ![c].items =
                                 [i \in 1..Len(@) |->
                                     IF @[i].key = key THEN [@[i] EXCEPT !.value = scaled]
                                     ELSE @[i]]]
                        ELSE caches
    /\ UNCHANGED <<cfg, array, pyramid, last>>

\* compute_tile_from_source_tile on the tile the source image returned.
Transform(t) ==
    /\ At(t, "transform")
    /\ threads' = [threads EXCEPT ![t] =
                      Computed(threads[t],
                               compute_tile_from_source_tile(Top(threads[t]).image,
                                                             Top(threads[t]).tile))]
    /\ UNCHANGED <<cfg, array, pyramid, caches, last>>

\* tile_cache.put_value(tile_id, tile); return tile
StoreTile(t) ==
    /\ At(t, "store")
    /\ LET top == Top(threads[t])
       IN  /\ caches' = [caches EXCEPT ![top.image.tile_cache] =
                            Cache_put_value(@, get_tile_id(top.image, top.tile_x, top.tile_y),
                                            top.tile, FALSE)]
           /\ threads' = [threads EXCEPT ![t] = Return(threads[t], top.tile)]
    /\ UNCHANGED <<cfg, array, pyramid, last>>

ThreadStep(t) == Lookup(t) \/ ComputeTile(t) \/ Transform(t) \/ StoreTile(t)

\* The pyramid is built before its tiles are requested.
Unused == \A t \in Threads : threads[t].status = "idle"

NextConc ==
    \/ \E e \in TileEdgePrefs : Unused /\ CreateFromArray(e)
    \/ Unused /\ ApplyTransform
    \/ Unused /\ ApplyColorMap
    \/ \E x \in 0..ArrayWidth, y \in 0..ArrayHeight, z \in 0..MaxLevelList : Submit(x, y, z)
    \/ \E t \in Threads : Lookup(t)
    \/ \E t \in Threads : ComputeTile(t)
    \/ \E t \in Threads : Transform(t)
    \/ \E t \in Threads : StoreTile(t)

\* The pool runs every thread that has work to do.
SpecConc ==
    /\ Init
    /\ [][NextConc]_vars
    /\ \A t \in Threads : WF_vars(ThreadStep(t))

\* ------------------------------------------------- the pyramid alone

\* The pyramid of one request: built, mapped, read and disposed, while no
\* other pyramid writes into the caches of the service context.
NextPyramid ==
    \/ \E e \in TileEdgePrefs : CreateFromArray(e)
    \/ \E e \in TileEdgePrefs : CreateFromImage(e)
    \/ ApplyTransform
    \/ ApplyColorMap
    \/ \E x \in 0..ArrayWidth, y \in 0..ArrayHeight, z \in 0..MaxLevelList :
          GetTile(x, y, z, NoFault)
    \/ Dispose

SpecPyramid == Init /\ [][NextPyramid]_vars

\* ---------------------------------------------- the functions on tiles

\* The largest item of an input tile.
MaxValue == 4

\* An array of aw x ah items that runs through NaN, 0, .., MaxValue row by
\* row, starting seed items after NaN.
InputArray(aw, ah, seed) ==
    [r \in 1..ah |-> [c \in 1..aw |->
        (((r - 1) * aw + (c - 1) + seed) % (MaxValue + 2)) - 1]]

\* A call of a function on tiles: the image it is a method of, the tile it
\* is given, its other arguments and the tile it returns (ErrorTile when
\* it raises).
TileCall(op, image, source_tile, args, tile) ==
    [op |-> op, image |-> image, source_tile |-> source_tile, args |-> args,
     tile |-> tile]

InitTile ==
    /\ cfg = [inv_y |-> FALSE, file_cache_enabled |-> FALSE, capacity |-> MaxCapacity]
    /\ array \in {InputArray(aw, ah, seed) : aw \in 1..MaxTileEdge, ah \in 1..MaxTileEdge,
                                             seed \in 0..(MaxValue + 1)}
    /\ pyramid = NoPyramid
    /\ caches = [mem |-> Cache(cfg.capacity, FALSE), rgb |-> Cache(cfg.capacity, TRUE)]
    /\ last = TileCall("init", NoSource, NoneTile, << >>, NoneTile)
    /\ threads = [t \in Threads |-> Idle]

\* trim_tile(tile, expected_tile_size, fill_value)
TrimTile(ew, eh, fill_value) ==
    /\ last' = TileCall("trim_tile", NoSource, NdarrayTile(array), <<ew, eh, fill_value>>,
                        trim_tile(array, <<ew, eh>>, fill_value))
    /\ UNCHANGED <<threads, cfg, array, pyramid, caches>>

\* The image whose only tile is the input array.
InputImage == NdarrayImage_init(array, <<NumCols(array), NumRows(array)>>, "img", NoCache)

\* The no-data and valid-range attributes a variable may have.
NoDataValues == {None, <<NoDataValue>>}
ValidRanges == {None, <<NoDataValue + 1, MaxValue - 1>>}

\* TransformArrayImage(...).compute_tile_from_source_tile(..., tile)
TransformTile(flip_y, force_masked, no_data_value, valid_range) ==
    LET image == TransformArrayImage_init(InputImage, "tra", flip_y, force_masked,
                                          no_data_value, valid_range, NoCache)
    IN  /\ last' = TileCall("transform", image, NdarrayTile(array), << >>,
                       TransformArrayImage_compute_tile_from_source_tile(image,
                           NdarrayTile(array)))
        /\ UNCHANGED <<threads, cfg, array, pyramid, caches>>

\* The (value_min, value_max) ranges of a request: inside the values,
\* all the values, and of zero width.
ValueRanges ==
    {<<NoDataValue + 1, MaxValue - 1>>, <<0, MaxValue>>, <<NoDataValue + 1, NoDataValue + 1>>}

\* ColorMappedRgbaImage(...).compute_tile_from_source_tile(..., source_tile)
\* on the input array or on the tile the array transform has returned.
ColorMapTile(value_range, encode) ==
    LET transformed == last.op = "transform"
        source_tile == IF transformed THEN last.tile ELSE NdarrayTile(array)
        image == ColorMappedRgbaImage_init(IF transformed THEN last.image ELSE InputImage,
                                           "rgb", value_range, NumColors, encode, "PNG",
                                           NoCache)
    IN  /\ last' = TileCall("colormap", image, source_tile, << >>,
                       ColorMappedRgbaImage_compute_tile_from_source_tile(image, source_tile))
        /\ UNCHANGED <<threads, cfg, array, pyramid, caches>>

\* FastNdarrayDownsamplingImage(array, tile_size, step_exp).get_tile(tile_x, tile_y)
StridedTile(tile_size, step_exp, tile_x, tile_y) ==
    LET image == FastNdarrayDownsamplingImage_init(array, tile_size, step_exp, "arr", NoCache)
    IN  /\ tile_x < image.num_tiles[1]
        /\ tile_y < image.num_tiles[2]
        /\ last' = TileCall("strided", image, NdarrayTile(array), <<tile_x, tile_y>>,
                       OpImage_get_tile(image, array, tile_x, tile_y, caches, NoFault).tile)
        /\ UNCHANGED <<threads, cfg, array, pyramid, caches>>

NextTile ==
    \/ \E ew \in 1..MaxTileEdge, eh \in 1..MaxTileEdge, fill_value \in {NaN, 0} :
          TrimTile(ew, eh, fill_value)
    \/ \E flip_y \in BOOLEAN, force_masked \in BOOLEAN,
          no_data_value \in NoDataValues, valid_range \in ValidRanges :
          TransformTile(flip_y, force_masked, no_data_value, valid_range)
    \/ \E value_range \in ValueRanges, encode \in BOOLEAN :
          ColorMapTile(value_range, encode)

SpecTile == InitTile /\ [][NextTile]_vars

NextStrided ==
    \E tw \in 1..MaxTileEdge, th \in 1..MaxTileEdge, step_exp \in {0, 1} :
       \E tile_x \in 0..(MaxTileEdge - 1), tile_y \in 0..(MaxTileEdge - 1) :
          StridedTile(<<tw, th>>, step_exp, tile_x, tile_y)

SpecStrided == InitTile /\ [][NextStrided]_vars

\* ------------------------------------------- tile grid of a variable

\* A variable (or dataset) with its 1-D coordinate arrays of cell centres
\* in degrees; it has no lon_bnds and no lat_bnds coordinate.
Var(has_lat, has_lon, lat, lon) ==
    [has_lat |-> has_lat, has_lon |-> has_lon, lat |-> lat, lon |-> lon]

\* Longitudes run eastward in steps of 60 degrees and wrap at 180;
\* latitudes run in steps of 30 degrees, ascending or descending.
LonArrays ==
    {[i \in 1..n |-> LET x == first + 60 * (i - 1) IN IF x > 180 THEN x - 360 ELSE x] :
        first \in {-150, 30, 150}, n \in 1..(ArrayWidth + 1)}
LatArrays ==
    {[i \in 1..n |-> a[1] + a[2] * (i - 1)] :
        a \in {<<-45, 30>>, <<45, -30>>}, n \in 1..ArrayHeight}

\* min(abs(np.diff(coord_var))): the builtin min raises ValueError on the
\* empty sequence of differences of an array of one item.
MinAbsDiff(a) ==
    LET diffs == {Max(a[i + 1] - a[i], a[i] - a[i + 1]) : i \in 1..(Len(a) - 1)}
    IN  CHOOSE d \in diffs : \A e \in diffs : d <= e

\* get_dataset_bounds: (lon_min, lat_min, lon_max, lat_max)
get_dataset_bounds(dataset) ==
    IF ~dataset.has_lon \/ ~dataset.has_lat \/ Len(dataset.lon) < 2 \/ Len(dataset.lat) < 2
    THEN [error |-> "ValueError"]
    ELSE LET lon_delta == MinAbsDiff(dataset.lon)
             lon_min == dataset.lon[1] - lon_delta \div 2
             lon_max == dataset.lon[Len(dataset.lon)] + lon_delta \div 2
             lat1 == dataset.lat[1]
             lat2 == dataset.lat[Len(dataset.lat)]
             lat_delta == MinAbsDiff(dataset.lat)
             lat_min == Min(lat1, lat2) - lat_delta \div 2
             lat_max == Max(lat1, lat2) + lat_delta \div 2
         IN  [error |-> "", bounds |-> <<lon_min, lat_min, lon_max, lat_max>>]

\* get_box_split_bounds: one box, or two boxes at the antimeridian.
get_box_split_bounds(lon_min, lat_min, lon_max, lat_max) ==
    IF lon_max >= lon_min
    THEN << <<lon_min, lat_min, lon_max, lat_max>> >>
    ELSE << <<lon_min, lat_min, 180, lat_max>>, <<-180, lat_min, lon_max, lat_max>> >>

\* GeoExtent(west, south, east, north, inv_y); GeoExtent() is the whole
\* globe.
GeoExtent(west, south, east, north, inv_y) ==
    [west |-> west, south |-> south, east |-> east, north |-> north,
     inv_y |-> inv_y, crosses_antimeridian |-> east < west]
GeoExtent_default == GeoExtent(-180, -90, 180, 90, FALSE)

\* The spacing of the cell centres, eastward across the antimeridian.
Spacing(a) ==
    LET diffs == {(a[i + 1] - a[i]) % 360 : i \in 1..(Len(a) - 1)}
    IN  CHOOSE d \in diffs : \A e \in diffs : d <= e

\* GeoExtent.from_coord_arrays(lons, lats): half a cell of padding around
\* the first and the last centres; ValueError for fewer than 2 points.
GeoExtent_from_coord_arrays(lons, lats) ==
    IF Len(lons) < 2 \/ Len(lats) < 2 THEN [error |-> "ValueError"]
    ELSE LET dx == Spacing(lons)
             dy == MinAbsDiff(lats)
             south == Min(lats[1], lats[Len(lats)]) - dy \div 2
             north == Max(lats[1], lats[Len(lats)]) + dy \div 2
         IN  [error |-> "",
              extent |-> GeoExtent(lons[1] - dx \div 2, south,
                                   lons[Len(lons)] + dx \div 2, north,
                                   lats[1] < lats[Len(lats)])]

\* compute_tile_grid(var) with the coordinates of the variable.  The
\* result is None, or the tile grid with its geographic extent.
compute_tile_grid_of_var(var, preferred) ==
    IF ~var.has_lat \/ ~var.has_lon THEN [error |-> "", grid |-> None]
    ELSE LET width == Len(var.lon)
             height == Len(var.lat)
             derived == GeoExtent_from_coord_arrays(var.lon, var.lat)
             geo_extent == IF derived.error = "ValueError" THEN GeoExtent_default
                           ELSE derived.extent
         IN  [error |-> "",
              grid |-> compute_tile_grid(Filled(height, width, 0), preferred,
                                         geo_extent.inv_y),
              geo_extent |-> geo_extent,
              warned |-> derived.error = "ValueError"]

\* width_0 = (width_0 + 1) // 2, num_levels times
RECURSIVE HalveUp(_, _)
HalveUp(size, times) == IF times = 0 THEN size ELSE HalveUp((size + 1) \div 2, times - 1)

\* The latitude test with the operands exchanged.
Dataset_inv_y_descending(dataset) == dataset.lat[Len(dataset.lat)] < dataset.lat[1]

\* inv_y = float(dataset.lat[0]) < float(dataset.lat[-1])
Dataset_inv_y(dataset) == dataset.lat[1] < dataset.lat[Len(dataset.lat)]

\* _get_dataset_tile_grid(dataset, num_levels) of a dataset whose
\* variables are chunked in tile_edge x tile_edge chunks.
mldataset_get_dataset_tile_grid(dataset, tile_edge, num_levels) ==
    LET geo_extent == get_dataset_bounds(dataset)
        inv_y == Dataset_inv_y(dataset)
        width == Len(dataset.lon)
        height == Len(dataset.lat)
        created == TileGrid_create(width, height, tile_edge, tile_edge, inv_y)
    IN  IF geo_extent.error # "" THEN [error |-> geo_extent.error]
        ELSE [error |-> "",
              geo_extent |-> geo_extent.bounds,
              grid |-> IF num_levels # None
                       THEN TileGrid(num_levels[1],
                                CeilDiv(HalveUp(width, num_levels[1]), tile_edge),
                                CeilDiv(HalveUp(height, num_levels[1]), tile_edge),
                                tile_edge, tile_edge, inv_y)
                       ELSE IF created.error = "" THEN created.grid
                       ELSE TileGrid(1, 1, 1, width, height, inv_y)]

\* get_dataset_geometry(dataset): the boxes of the bounds of the dataset.
get_dataset_geometry(dataset) ==
    LET b == get_dataset_bounds(dataset)
    IN  IF b.error # "" THEN [error |-> b.error]
        ELSE [error |-> "", bounds |-> b.bounds,
              boxes |-> get_box_split_bounds(b.bounds[1], b.bounds[2],
                                             b.bounds[3], b.bounds[4])]

\* A call on the variable: the function, its arguments and its result.
VarCall(op, args, result) == [op |-> op, args |-> args, result |-> result]

InitGrid ==
    /\ cfg = [inv_y |-> FALSE, file_cache_enabled |-> FALSE, capacity |-> MaxCapacity]
    /\ array \in {Var(has_lat, has_lon, lat, lon) :
                     has_lat \in BOOLEAN, has_lon \in BOOLEAN,
                     lat \in LatArrays, lon \in LonArrays}
    /\ pyramid = NoPyramid
    /\ caches = [mem |-> Cache(cfg.capacity, FALSE), rgb |-> Cache(cfg.capacity, TRUE)]
    /\ last = VarCall("init", << >>, [error |-> ""])
    /\ threads = [t \in Threads |-> Idle]

ComputeTileGrid(preferred) ==
    /\ last' = VarCall("compute_tile_grid", <<preferred>>,
                       compute_tile_grid_of_var(array, preferred))
    /\ UNCHANGED <<threads, cfg, array, pyramid, caches>>

GetDatasetTileGrid(tile_edge, num_levels) ==
    /\ last' = VarCall("get_dataset_tile_grid", <<tile_edge, num_levels>>,
                       mldataset_get_dataset_tile_grid(array, tile_edge, num_levels))
    /\ UNCHANGED <<threads, cfg, array, pyramid, caches>>

GetDatasetGeometry ==
    /\ last' = VarCall("get_dataset_geometry", << >>, get_dataset_geometry(array))
    /\ UNCHANGED <<threads, cfg, array, pyramid, caches>>

NextGrid ==
    \/ \E e \in TileEdgePrefs : ComputeTileGrid(e)
    \/ \E e \in TileEdgePrefs : \E n \in {None} \cup {<<k>> : k \in 1..MaxLevelList} :
          GetDatasetTileGrid(e, n)
    \/ GetDatasetGeometry

SpecGrid == InitGrid /\ [][NextGrid]_vars

\* ------------------------------------------------------------- the service context
\* The state of a ServiceContext: cfg is its configuration, array the
\* datasets on disk, caches.dataset_cache maps the names of the opened
\* datasets to their tile grid caches.

DsNames == {"a", "a-b"}

\* The datasets on disk and their variables; variable "d" has no latitude
\* coordinate and the raster shape of variable "c".
Cubes ==
    ("a" :> ("b-c" :> Var(TRUE, TRUE, <<45, -30>>, <<-150, -90, -30, 30>>)
             @@ "c" :> Var(TRUE, TRUE, <<45, -30>>, <<-150, -90>>))
     @@ "a-b" :> ("c" :> Var(TRUE, TRUE, <<-45, 30>>, <<30, 90>>)
                  @@ "d" :> Var(FALSE, TRUE, <<-45, 30>>, <<30, 90>>)))

\* A configuration with the given datasets under its key 'Datasets'.
Config(datasets) == [Datasets |-> datasets]

\* config.get(key)
Config_get(config, key) == IF key \in DOMAIN config THEN <<config[key]>> ELSE None

\* get_dataset_descriptor(ds_name)
ServiceContext_get_dataset_descriptor(config, ds_name) ==
    LET dataset_descriptors == Config_get(config, "Datasets")
    IN  IF dataset_descriptors = None \/ dataset_descriptors = <<{}>>
        THEN [error |-> "ServiceConfigError"]
        ELSE IF ds_name \in dataset_descriptors[1]
        THEN [error |-> "", descriptor |-> ds_name]
        ELSE [error |-> "ServiceResourceNotFoundError"]

NoEntries == [k \in {} |-> None]

\* get_dataset(ds_name): the dataset of the cache entry, or the newly
\* opened dataset, cached with an empty tile grid cache.
ServiceContext_get_dataset(dataset_cache, config, ds_name) ==
    IF ds_name \in DOMAIN dataset_cache
    THEN [error |-> "", dataset_cache |-> dataset_cache]
    ELSE LET d == ServiceContext_get_dataset_descriptor(config, ds_name)
         IN  IF d.error # "" THEN [error |-> d.error, dataset_cache |-> dataset_cache]
             ELSE [error |-> "",
                   dataset_cache |->
                       [n \in DOMAIN dataset_cache \cup {ds_name} |->
                           IF n = ds_name
                           THEN [descriptor |-> d.descriptor, tile_grid_cache |-> NoEntries]
                           ELSE dataset_cache[n]]]

\* f'tg_{shape[-1]}_{shape[-2]}'
tile_grid_key(var) == "tg_" \o ToString(Len(var.lon)) \o "_" \o ToString(Len(var.lat))

\* The tile grid of the variable or None, as the cache holds it.
ComputedTileGrid(var) ==
    LET tile_grid == compute_tile_grid_of_var(var, MaxTileEdge).grid
    IN  IF ~var.has_lat \/ ~var.has_lon THEN None ELSE <<tile_grid>>

\* get_or_compute_tile_grid that computes the tile grid on every call.
ServiceContext_get_or_compute_tile_grid_always(dataset_cache, config, ds_name, var) ==
    LET opened == ServiceContext_get_dataset(dataset_cache, config, ds_name)
    IN  IF opened.error # ""
        THEN [error |-> opened.error, dataset_cache |-> dataset_cache]
        ELSE [error |-> "", tile_grid |-> ComputedTileGrid(var), computed |-> TRUE,
              dataset_cache |->
                  [opened.dataset_cache EXCEPT ![ds_name].tile_grid_cache =
                      [k \in DOMAIN @ \cup {tile_grid_key(var)} |->
                          IF k = tile_grid_key(var) THEN ComputedTileGrid(var) ELSE @[k]]]]

\* get_or_compute_tile_grid(ds_name, var); computed tells whether
\* compute_tile_grid was called.
ServiceContext_get_or_compute_tile_grid(dataset_cache, config, ds_name, var) ==
    LET opened == ServiceContext_get_dataset(dataset_cache, config, ds_name)
        tile_grid_cache == opened.dataset_cache[ds_name].tile_grid_cache
        key == tile_grid_key(var)
    IN  IF opened.error # ""
        THEN [error |-> opened.error, dataset_cache |-> dataset_cache]
        ELSE IF key \in DOMAIN tile_grid_cache
        THEN [error |-> "", tile_grid |-> tile_grid_cache[key], computed |-> FALSE,
              dataset_cache |-> opened.dataset_cache]
        ELSE [error |-> "", tile_grid |-> ComputedTileGrid(var), computed |-> TRUE,
              dataset_cache |->
                  [opened.dataset_cache EXCEPT ![ds_name].tile_grid_cache =
                      [k \in DOMAIN @ \cup {key} |->
                          IF k = key THEN ComputedTileGrid(var) ELSE @[k]]]]

\* get_tile_grid(ds_name, var_name, var)
ServiceContext_get_tile_grid(dataset_cache, config, ds_name, var) ==
    LET r == ServiceContext_get_or_compute_tile_grid(dataset_cache, config, ds_name, var)
    IN  IF r.error = "" /\ r.tile_grid = None THEN [r EXCEPT !.error = "ServiceError"]
        ELSE r

\* The assignment ctx.config = config: the dataset cache afterwards, the
\* datasets closed and the error raised.  The dataset descriptors are read
\* from the key 'datasets'.
ServiceContext_set_config(dataset_cache, old_config, config) ==
    LET old_dataset_descriptors == Config_get(old_config, "datasets")
        new_dataset_descriptors == Config_get(config, "datasets")
    IN  IF new_dataset_descriptors = None \/ new_dataset_descriptors = <<{}>>
        THEN [error |-> "", closed |-> DOMAIN dataset_cache, dataset_cache |-> NoEntries]
        ELSE IF old_dataset_descriptors = None \/ old_dataset_descriptors = <<{}>>
                \/ DOMAIN dataset_cache = {}
        THEN [error |-> "", closed |-> {}, dataset_cache |-> dataset_cache]
        ELSE [error |-> "TypeError", closed |-> {}, dataset_cache |-> dataset_cache]

\* A call on the service context.
ServiceCall(op, args, result) == [op |-> op, args |-> args, result |-> result]

InitService ==
    /\ cfg \in {Config(d) : d \in SUBSET DsNames}
    /\ array = Cubes
    /\ pyramid = NoPyramid
    /\ caches = [dataset_cache |-> NoEntries]
    /\ last = ServiceCall("init", << >>, [error |-> ""])
    /\ threads = [t \in Threads |-> Idle]

SetConfig(config) ==
    LET r == ServiceContext_set_config(caches.dataset_cache, cfg, config)
    IN  /\ cfg' = config
        /\ caches' = [caches EXCEPT !.dataset_cache = r.dataset_cache]
        /\ last' = ServiceCall("config", <<config>>, r)
        /\ UNCHANGED <<array, pyramid, threads>>

GetDataset(ds_name) ==
    LET r == ServiceContext_get_dataset(caches.dataset_cache, cfg, ds_name)
    IN  /\ caches' = [caches EXCEPT !.dataset_cache = r.dataset_cache]
        /\ last' = ServiceCall("get_dataset", <<ds_name>>, r)
        /\ UNCHANGED <<cfg, array, pyramid, threads>>

GetTileGrid(ds_name, var_name) ==
    LET r == ServiceContext_get_tile_grid(caches.dataset_cache, cfg, ds_name,
                                          array[ds_name][var_name])
    IN  /\ caches' = [caches EXCEPT !.dataset_cache = r.dataset_cache]
        /\ last' = ServiceCall("get_tile_grid", <<ds_name, var_name>>, r)
        /\ UNCHANGED <<cfg, array, pyramid, threads>>

NextService ==
    \/ \E d \in SUBSET DsNames : SetConfig(Config(d))
    \/ \E ds_name \in DsNames : GetDataset(ds_name)
    \/ \E ds_name \in DsNames : \E var_name \in DOMAIN array[ds_name] :
          GetTileGrid(ds_name, var_name)

SpecService == InitService /\ [][NextService]_vars

\* ------------------------------------------------------------- lazy multi-level dataset
\* A LazyMultiLevelDataset shared by the threads: caches holds
\* _level_datasets, _tile_grid and the owner of _lock (0: none), and counts
\* the calls of get_dataset_lazily and get_tile_grid_lazily; the k-th call
\* for a level returns the object k.  Each thread is in a call of
\* get_dataset(index) or of the tile_grid property.

LevelIndexes == {0, 1}

LazyCalls == {[op |-> "get_dataset", index |-> i] : i \in LevelIndexes}
                 \cup {[op |-> "tile_grid", index |-> 0]}

LazyThread(pc, call, result) == [pc |-> pc, call |-> call, result |-> result]

\* LazyMultiLevelDataset.__init__ without a tile grid
InitLazy ==
    /\ cfg = [inv_y |-> FALSE, file_cache_enabled |-> FALSE, capacity |-> MaxCapacity]
    /\ array = << >>
    /\ pyramid = NoPyramid
    /\ caches = [level_datasets |-> [i \in LevelIndexes |-> 0], tile_grid |-> 0,
                 lock |-> 0,
                 lazily |-> [i \in LevelIndexes |-> 0], grid_lazily |-> 0]
    /\ last = NoCall("init")
    /\ threads = [t \in Threads |->
                     LazyThread("idle", [op |-> "none", index |-> 0], 0)]

\* 'if index not in self._level_datasets' / 'if self._tile_grid is None'
LazyCheck(t, call) ==
    LET present == IF call.op = "get_dataset"
                   THEN caches.level_datasets[call.index] # 0
                   ELSE caches.tile_grid # 0
    IN  /\ threads[t].pc = "idle"
        /\ threads' = [threads EXCEPT ![t] =
                          LazyThread(IF present THEN "return" ELSE "wait", call, 0)]
        /\ UNCHANGED <<cfg, array, pyramid, caches, last>>

\* 'with self._lock:' entered
LazyAcquire(t) ==
    /\ threads[t].pc = "wait"
    /\ caches.lock = 0
    /\ caches' = [caches EXCEPT !.lock = t]
    /\ threads' = [threads EXCEPT ![t].pc = "locked"]
    /\ UNCHANGED <<cfg, array, pyramid, last>>

\* The body of the with block and the release of the lock:
\* self._level_datasets[index] = self.get_dataset_lazily(index), or
\* self._tile_grid = self.get_tile_grid_lazily(), which calls
\* self.get_dataset(0) under the reentrant lock.
LazyCompute(t) ==
    LET call == threads[t].call
        index == call.index
        fetch == caches.level_datasets[index] = 0
        lazily == IF fetch THEN [caches.lazily EXCEPT ![index] = @ + 1]
                  ELSE caches.lazily
        level_datasets == IF fetch
                          THEN [caches.level_datasets EXCEPT ![index] = lazily[index]]
                          ELSE caches.level_datasets
    IN  /\ threads[t].pc = "locked"
        /\ caches.lock = t
        /\ caches' =
              IF call.op = "get_dataset"
              THEN [caches EXCEPT !.lock = 0,
                       !.lazily[index] = @ + 1,
                       !.level_datasets[index] = caches.lazily[index] + 1]
              ELSE [caches EXCEPT !.lock = 0,
                       !.lazily = lazily,
                       !.level_datasets = level_datasets,
                       !.grid_lazily = @ + 1,
                       !.tile_grid = caches.grid_lazily + 1]
        /\ threads' = [threads EXCEPT ![t].pc = "return"]
        /\ UNCHANGED <<cfg, array, pyramid, last>>

\* 'return self._level_datasets[index]' / 'return self._tile_grid'
LazyReturn(t) ==
    /\ threads[t].pc = "return"
    /\ threads' = [threads EXCEPT ![t] =
                      LazyThread("idle", @.call,
                                 IF @.call.op = "get_dataset"
                                 THEN caches.level_datasets[@.call.index]
                                 ELSE caches.tile_grid)]
    /\ UNCHANGED <<cfg, array, pyramid, caches, last>>

NextLazy ==
    \E t \in Threads :
       \/ \E call \in LazyCalls : LazyCheck(t, call)
       \/ LazyAcquire(t)
       \/ LazyCompute(t)
       \/ LazyReturn(t)

SpecLazy == InitLazy /\ [][NextLazy]_vars

\* ------------------------------------------------------------- tile requests
\* The tile-request entry points: ServiceContext.get_dataset_tile of
\* xcube_server and of xcts, and the get methods of the tile handlers of
\* xcts (xcube_wmts/rest.py has the code of xcts/handlers.py).  cfg holds
\* the variant and the configured colour mapping, caches.pyramid_cache the
\* pyramids by key, last the last request.

Variants == {"xcube_server.context", "xcts.context", "xcts.handlers"}

MaxPyramids == 2

\* The values of the time coordinate of the variables.
TimeValues == <<10, 20>>

\* The requests: a geo-spatial variable of a dataset, the index along the
\* time dimension and the colour parameters, each absent (None) or given.
TileRequests ==
    [ds_name : DsNames, var_name : {"c", "b-c"}, index : {None, <<1>>},
     cbar : {None, <<"bone">>}, vmin : {None, <<0>>}, vmax : {None, <<4>>}]

\* '%s' % value for a float value
FloatStr(value) == ToString(value) \o ".0"

\* get_color_mapping(ds_name, var_name): the mapping of the configured style
get_color_mapping(config, ds_name, var_name) == config.color_mapping

\* The colour parameters after the defaults are applied.  The contexts
\* take 'value or default' for each parameter when one of the three is
\* None, and 0.0 is false; the handlers pass the default to
\* get_query_argument.
apply_defaults(variant, req, default) ==
    IF variant = "xcts.handlers"
    THEN [cbar |-> IF req.cbar = None THEN default[1] ELSE req.cbar[1],
          vmin |-> IF req.vmin = None THEN default[2] ELSE req.vmin[1],
          vmax |-> IF req.vmax = None THEN default[3] ELSE req.vmax[1]]
    ELSE IF req.cbar = None \/ req.vmin = None \/ req.vmax = None
    THEN [cbar |-> IF req.cbar = None THEN default[1] ELSE req.cbar[1],
          vmin |-> IF req.vmin = None \/ req.vmin = <<0>> THEN default[2] ELSE req.vmin[1],
          vmax |-> IF req.vmax = None \/ req.vmax = <<0>> THEN default[3] ELSE req.vmax[1]]
    ELSE [cbar |-> req.cbar[1], vmin |-> req.vmin[1], vmax |-> req.vmax[1]]

\* The position along the time dimension the request selects.
TimeIndex(req) == IF req.index = None THEN 0 ELSE req.index[1]

\* array_id of the request
array_id(variant, req) ==
    IF variant = "xcube_server.context"
    THEN req.ds_name \o "-" \o req.var_name \o "-" \o "-time="
             \o ToString(TimeValues[TimeIndex(req) + 1])
    ELSE IF variant = "xcts.context"
    THEN req.ds_name \o "-" \o req.var_name
             \o (IF req.index = None THEN "" ELSE "-" \o ToString(req.index[1]))
    ELSE req.ds_name \o "-" \o req.var_name \o "-"
             \o (IF req.index = None THEN "" ELSE ToString(req.index[1]))

\* image_id = '%s-%s-%s-%s' % (array_id, cmap_cbar, cmap_vmin, cmap_vmax)
image_id(variant, req, cmap) ==
    array_id(variant, req) \o "-" \o cmap.cbar \o "-" \o FloatStr(cmap.vmin)
        \o "-" \o FloatStr(cmap.vmax)

\* The key under which the pyramid is stored.
pyramid_id_stored(variant, id) == id

\* The key under which the pyramid is looked up.
pyramid_id(variant, id) ==
    IF variant = "xcube_server.context" THEN id
    ELSE IF variant = "xcts.context" THEN "pyramid-" \o id
    ELSE "impy-" \o id

\* What a pyramid shows: the variable, the time index and the colour
\* mapping.
Combination(req, cmap) ==
    [ds_name |-> req.ds_name, var_name |-> req.var_name, index |-> TimeIndex(req),
     cbar |-> cmap.cbar, vmin |-> cmap.vmin, vmax |-> cmap.vmax]

\* The pyramid built for the request: the ids of its level-0 images, and
\* what it shows.
BuiltPyramid(variant, req, cmap) ==
    [request |-> req, shows |-> Combination(req, cmap),
     arr_id |-> "arr-" \o array_id(variant, req) \o "/0",
     tra_id |-> "tra-" \o array_id(variant, req) \o "/0",
     rgb_id |-> "rgb-" \o image_id(variant, req, cmap) \o "/0"]

\* get_dataset_tile(ds_name, var_name, x, y, z, params) up to the pyramid:
\* the pyramid used, whether it was built, and the pyramid cache afterwards.
get_dataset_tile(variant, config, pyramid_cache, req) ==
    LET cmap == apply_defaults(variant, req,
                               get_color_mapping(config, req.ds_name, req.var_name))
        id == image_id(variant, req, cmap)
        key == pyramid_id(variant, id)
        found == key \in DOMAIN pyramid_cache
        built == BuiltPyramid(variant, req, cmap)
    IN  [req |-> req, cmap |-> cmap, image_id |-> id, built |-> ~found,
         pyramid |-> IF found THEN pyramid_cache[key] ELSE built,
         pyramid_cache |->
             IF found THEN pyramid_cache
             ELSE [k \in DOMAIN pyramid_cache \cup {pyramid_id_stored(variant, id)} |->
                      IF k = pyramid_id_stored(variant, id) THEN built
                      ELSE pyramid_cache[k]]]

InitRequest ==
    /\ cfg \in [variant : Variants, color_mapping : {<<"jet", 1, 3>>}]
    /\ array = Cubes
    /\ pyramid = NoPyramid
    /\ caches = [pyramid_cache |-> NoEntries]
    /\ last = [op |-> "init"]
    /\ threads = [t \in Threads |-> Idle]

\* A tile request; at most MaxPyramids pyramids are kept.
GetDatasetTile(req) ==
    LET r == get_dataset_tile(cfg.variant, cfg, caches.pyramid_cache, req)
    IN  /\ req.var_name \in DOMAIN array[req.ds_name]
        /\ Cardinality(DOMAIN r.pyramid_cache) <= MaxPyramids
        /\ caches' = [caches EXCEPT !.pyramid_cache = r.pyramid_cache]
        /\ last' = [op |-> "get_dataset_tile", req |-> req, cmap |-> r.cmap,
                     image_id |-> r.image_id, built |-> r.built, pyramid |-> r.pyramid]
        /\ UNCHANGED <<cfg, array, pyramid, threads>>

NextRequest == \E req \in TileRequests : GetDatasetTile(req)

SpecRequest == InitRequest /\ [][NextRequest]_vars

\* ------------------------------------------------------------- levels of a base dataset
\* A BaseMultiLevelDataset over the input array as the spatial variable of
\* its base dataset.

\* get_dataset_lazily that drops the incomplete last cell of a dimension.
BaseMultiLevelDataset_get_dataset_lazily_floor(base_dataset, index) ==
    LET step == Pow2(index)
        rows == (NumRows(base_dataset) \div step) * step
        cols == (NumCols(base_dataset) \div step) * step
    IN  Subsample(Window(base_dataset, 0, 0, cols, rows), step)

\* BaseMultiLevelDataset.get_dataset_lazily(index)
BaseMultiLevelDataset_get_dataset_lazily(base_dataset, index) ==
    IF index = 0 THEN base_dataset
    ELSE Subsample(base_dataset, Pow2(index))

GetLevelDataset(index) ==
    /\ last' = TileCall("get_dataset_lazily", NoSource, NdarrayTile(array), <<index>>,
                        NdarrayTile(BaseMultiLevelDataset_get_dataset_lazily(array, index)))
    /\ UNCHANGED <<threads, cfg, array, pyramid, caches>>

NextLevels == \E index \in 0..MaxLevelList : GetLevelDataset(index)

SpecLevels == InitTile /\ [][NextLevels]_vars

\* ------------------------------------------------------------- claims

IsGetTile == last.op = "get_tile"
\* The state in which the last get_tile call has just returned.
JustReturned == IsGetTile /\ ~last.touched
LastImage == LevelImage(pyramid, last.req)
\* '{id}/{tile_x}/{tile_y}' of the last request.
LastKey == LastImage.id \o "/" \o ToString(last.req[1]) \o "/" \o ToString(last.req[2])
\* The compute_tile invocations of the last call on the requested image.
OwnComputes == SelectSeq(last.log, LAMBDA e : e.id = LastImage.id)

\* C1: two successive ImagePyramid.get_tile calls with the same (x, y, z)
\* and no modification of the caches in between return the same payload.
C1_GetTileIdempotent ==
    (IsGetTile /\ last.how = "again") => last.tile = last.before

C1_Witness ==
    IsGetTile /\ last.how = "again" /\ last.tile.type = "png" /\ ~last.hit

\* C2: when the cache entry of a tile was evicted after a get_tile call, the
\* next get_tile for the same tile recomputes it, returns the payload the
\* call before the eviction returned, and stores it in the cache again.
C2_RecomputedAfterEviction ==
    (JustReturned /\ last.how = "after_eviction") =>
        /\ last.tile = last.before
        /\ Len(OwnComputes) = 1
        /\ HasEntry(pyramid, last.req, caches)
        /\ Cache_get_value(caches[LastImage.tile_cache], LastKey, FALSE) = last.tile

C2_Witness ==
    JustReturned /\ last.how = "after_eviction" /\ LastImage.kind = "rgb"

\* C3: get_tile on an image whose cache holds an entry under
\* '{id}/{tile_x}/{tile_y}' returns that entry, invokes no compute_tile at
\* all and leaves the contents of the caches unchanged.
C3_CacheHit ==
    (IsGetTile /\ last.hit) =>
        /\ last.tile = last.entry
        /\ last.log = << >>
        /\ ~last.changed

C3_Witness == IsGetTile /\ last.hit /\ LastImage.kind = "tra"

\* C4: get_tile on an image whose cache has no entry for the tile invokes
\* compute_tile exactly once, with the rectangle (tile_width * tile_x,
\* tile_height * tile_y, tile_width, tile_height), stores the computed tile
\* under '{id}/{tile_x}/{tile_y}' and returns it; with no cache attached it
\* computes and returns the tile and stores nothing under that key.
C4_CacheMiss ==
    (JustReturned /\ ~last.hit) =>
        /\ Len(OwnComputes) = 1
        /\ last.log[Len(last.log)] =
              [id |-> LastImage.id, tile_x |-> last.req[1], tile_y |-> last.req[2],
               rectangle |-> <<LastImage.tile_size[1] * last.req[1],
                               LastImage.tile_size[2] * last.req[2],
                               LastImage.tile_size[1], LastImage.tile_size[2]>>]
        /\ last.tile.type \notin {"none", "error"}
        /\ last.cached =>
              /\ Cache_has(caches[LastImage.tile_cache], LastKey)
              /\ Cache_get_value(caches[LastImage.tile_cache], LastKey, FALSE) = last.tile
        /\ ~last.cached =>
              /\ \A c \in {"mem", "rgb"} : ~Cache_has(caches[c], LastKey)
              /\ LastImage.source = NoSource => ~last.changed

C4_Witness ==
    JustReturned /\ ~last.hit /\ last.cached /\ LastImage.kind = "rgb" /\ last.req[2] = 1

\* The images of the chain of a level image, and the cache keys of the
\* tiles of the images of a pyramid.
RECURSIVE ChainImages(_)
ChainImages(image) ==
    IF image.source = NoSource THEN {image}
    ELSE {image} \union ChainImages(image.source)

PyramidKeys(p) ==
    {get_tile_id(image, x, y) :
        image \in UNION {ChainImages(p.level_images[i]) : i \in 1..Len(p.level_images)},
        x \in 0..ArrayWidth, y \in 0..ArrayHeight}

\* C5: after dispose() on a pyramid no cache holds an entry written by a
\* get_tile call made through that pyramid.
C5_DisposePurgesAll ==
    last.op = "dispose" =>
        \A c \in {"mem", "rgb"} : Cache_keys(caches[c]) \cap PyramidKeys(pyramid) = {}

\* C9: every pyramid has exactly tile_grid.num_levels level images, and the
\* constructor raises ValueError for a level list of any other length.
C9_NumLevels ==
    /\ IsPyramid(pyramid) => Len(pyramid.level_images) = pyramid.tile_grid.num_levels
    /\ last.op = "construct" =>
          /\ last.error = "ValueError" <=> last.req[1] # last.req[2]
          /\ last.error = "ValueError" => pyramid = NoPyramid

C9_Witness == last.op = "construct" /\ last.error = "ValueError" /\ last.req[1] > last.req[2]

\* C10: the tile size of every level image of a pyramid equals the tile
\* size of its tile grid.
C10_TileSizeShared ==
    IsPyramid(pyramid) =>
        \A i \in 1..Len(pyramid.level_images) :
            pyramid.level_images[i].tile_size = TileGrid_tile_size(pyramid.tile_grid)

\* The tile the last request yields when nothing is cached and no I/O
\* error occurs.
EmptyCaches == [c \in DOMAIN caches |-> [caches[c] EXCEPT !.items = << >>]]
UncachedTile ==
    ImagePyramid_get_tile(pyramid, array, last.req[1], last.req[2], last.req[3],
                          EmptyCaches, NoFault).tile
FileStoreFailed ==
    /\ IsGetTile
    /\ last.cached /\ caches[LastImage.tile_cache].file_backed
    /\ last.io.get \/ last.io.put

AfterPut == last.op = "put"
PutSize == PayloadSize(last.tile)
WithinThreshold(c) == Cache_size(c) * ThresholdDen <= c.capacity * ThresholdNum

BothDone == \A t \in Threads : threads[t].status = "done"
\* The entries the cache of the requested image holds for the requested tile.
EntriesOfKey ==
    SelectSeq(caches[LastImage.tile_cache].items, LAMBDA it : it.key = LastKey)

\* Once both calls of a request submitted during a cache miss have returned,
\* they have returned the same payload, each computed the tile at most once,
\* and the cache holds exactly one entry for the key of the tile, which is
\* that payload.
C6_SamePayloadOneEntry ==
    (last.op = "submit" /\ ~last.hit /\ BothDone) =>
        /\ threads[1].tile = threads[2].tile
        /\ threads[1].tile = UncachedTile
        /\ \A t \in Threads : threads[t].computes \in {0, 1}
        /\ last.cached =>
              /\ Len(EntriesOfKey) = 1
              /\ EntriesOfKey[1].value = threads[1].tile

\* The steps a get_tile call on image takes at most: lookup, compute_tile
\* and store, and for a decorator the call on its source and the transform.
MaxSteps(image) == 4 * Cardinality(ChainImages(image)) - 1
StepsOfFrame(f) ==
    CASE f.pc = "lookup" -> MaxSteps(f.image)
      [] f.pc = "compute" -> MaxSteps(f.image) - 1
      [] f.pc \in {"await", "transform"} -> 2
      [] f.pc = "store" -> 1
RECURSIVE StepsLeft(_)
StepsLeft(stack) ==
    IF stack = << >> THEN 0 ELSE StepsOfFrame(stack[1]) + StepsLeft(Tail(stack))

\* A running call can always take its next step: its innermost call is at
\* one of the steps Lookup, ComputeTile, Transform and StoreTile take, none
\* of which waits for the other thread.
C6_NeverBlocked ==
    \A t \in Threads :
        threads[t].status = "running" =>
            /\ threads[t].stack # << >>
            /\ Top(threads[t]).pc \in {"lookup", "compute", "transform", "store"}
            /\ \A i \in 1..(Len(threads[t].stack) - 1) : threads[t].stack[i].pc = "await"

\* Every step of a running call brings it closer to its return.
C6_StepsDecrease ==
    \A t \in Threads :
        (threads[t].status = "running" /\ threads'[t] # threads[t]) =>
            /\ StepsLeft(threads'[t].stack) < StepsLeft(threads[t].stack)
            /\ threads'[t].status = "done" <=> threads'[t].stack = << >>

\* C6: two worker threads that call get_tile for the same image and tile
\* during a cache miss both terminate under every interleaving (a running
\* call is never blocked and each of its steps decreases the number of steps
\* it has left), return the same payload, and leave exactly one entry for
\* the key of the tile in the cache, which is that payload.
C6_RacingGetTile ==
    /\ []C6_SamePayloadOneEntry
    /\ []C6_NeverBlocked
    /\ [][C6_StepsDecrease]_vars

C6_Witness ==
    /\ last.op = "submit" /\ ~last.hit /\ BothDone
    /\ last.cached
    /\ \A t \in Threads : threads[t].computes = 1
    /\ LastImage.kind = "rgb"

\* The level mapper of the apply step that produced the pyramid p.
AppliedMapper(p, image, level) ==
    IF p.level_images[1].kind = "tra"
    THEN TransformMapper(image, level, p.tile_grid.inv_y)
    ELSE ColorMapper(image, level, cfg.file_cache_enabled)

ApplyStep == last'.op = "apply" /\ pyramid' # pyramid

\* C11: apply(level_mapper) returns a new pyramid with the same tile grid
\* whose level i is level_mapper(levels[i], i) for every level i, and the
\* levels of the pyramid it was called on are what they were: the new level
\* i wraps the level i the pyramid had before the call.
C11_ApplyMapsEveryLevel ==
    [][ApplyStep =>
          /\ IsPyramid(pyramid')
          /\ pyramid'.tile_grid = pyramid.tile_grid
          /\ Len(pyramid'.level_images) = pyramid.tile_grid.num_levels
          /\ \A i \in 1..Len(pyramid.level_images) :
                /\ pyramid'.level_images[i] =
                       AppliedMapper(pyramid', pyramid.level_images[i], i - 1)
                /\ pyramid'.level_images[i].source = pyramid.level_images[i]]_vars

C11_Witness ==
    /\ last.op = "apply"
    /\ Len(pyramid.level_images) >= 2
    /\ pyramid.level_images[2].kind = "rgb"
    /\ pyramid.level_images[2].source.kind = "tra"
    /\ pyramid.level_images[1].id # pyramid.level_images[2].id

\* The item of the array a pixel of a tile of a level of the given stride
\* shows: NaN beyond the edge of the array.
StridedItem(arr, stride, tile_size, tile_x, tile_y, c, r) ==
    LET col == (tile_size[1] * tile_x + c - 1) * stride + 1
        row == (tile_size[2] * tile_y + r - 1) * stride + 1
    IN  IF row <= NumRows(arr) /\ col <= NumCols(arr) THEN arr[row][col] ELSE NaN

FromArray == IsPyramid(pyramid) /\ TopKind = "fast"

\* C12: create_from_array builds level L (0 the lowest resolution) as a
\* direct-strided image over the raw array with stride 2^(num_levels-1-L),
\* so the last level reads the array at stride 1, no level image has
\* another image as its source, and the tiles of level L show the array at
\* that stride.
C12_LevelsReadArrayDirectly ==
    FromArray =>
        LET num_levels == pyramid.tile_grid.num_levels
        IN  /\ Len(pyramid.level_images) = num_levels
            /\ \A L \in 0..(num_levels - 1) :
                  LET image == pyramid.level_images[L + 1]
                  IN  /\ image.kind = "fast"
                      /\ image.source = NoSource
                      /\ image.step_size = Pow2(num_levels - 1 - L)
                      /\ image.size = <<NumCols(array) \div image.step_size,
                                        NumRows(array) \div image.step_size>>
            /\ pyramid.level_images[num_levels].step_size = 1
            /\ IsGetTile =>
                  /\ last.tile.type = "ndarray"
                  /\ last.tile.data =
                        [r \in 1..LastImage.tile_size[2] |->
                            [c \in 1..LastImage.tile_size[1] |->
                                StridedItem(array, Pow2(num_levels - 1 - last.req[3]),
                                            LastImage.tile_size,
                                            last.req[1], last.req[2], c, r)]]

C12_Witness ==
    /\ FromArray
    /\ IsGetTile
    /\ pyramid.tile_grid.num_levels >= 2
    /\ last.req[3] = 0
    /\ LastImage.step_size = 2
    /\ last.tile.data[1][2] = array[1][3]

\* C13: for every actual tile size (aw, ah) and every declared tile size
\* (ew, eh), trim_tile returns a tile of exactly (ew, eh) whose top-left
\* min(aw, ew) x min(ah, eh) region is the input's and whose other items
\* are the fill value, also when the tile is smaller in one dimension and
\* larger in the other.
C13_TrimTileExact ==
    last.op = "trim_tile" =>
        LET ew == last.args[1]
            eh == last.args[2]
            tile == last.source_tile.data
        IN  /\ last.tile.type = "ndarray"
            /\ last.tile.data =
                  [r \in 1..eh |-> [c \in 1..ew |->
                      IF r <= NumRows(tile) /\ c <= NumCols(tile)
                      THEN tile[r][c] ELSE last.args[3]]]

\* C14: with force_masked set and a source tile that is not masked, the
\* array transform masks an item exactly when it equals the configured
\* no-data value, or lies outside the configured valid range, or is not
\* finite, whichever of the two parameters are configured, and every
\* item that is not masked keeps its value.
C14_MaskExactly ==
    (last.op = "transform" /\ last.image.force_masked) =>
        LET image == last.image
            source == IF image.flip_y THEN PyReverse(last.source_tile.data)
                      ELSE last.source_tile.data
        IN  /\ last.tile.type = "masked"
            /\ \A r \in 1..NumRows(source) : \A c \in 1..NumCols(source) :
                  LET v == source[r][c]
                  IN  /\ last.tile.mask[r][c] <=>
                            \/ image.no_data_value # None /\ v = image.no_data_value[1]
                            \/ /\ image.valid_range # None
                               /\ v # NaN
                               /\ v < image.valid_range[1] \/ v > image.valid_range[2]
                            \/ v = NaN
                      /\ ~last.tile.mask[r][c] => last.tile.data[r][c] = v

\* The tile of the source image of the last request in the given tile row.
SourceTileOfLast(tile_y) ==
    OpImage_get_tile(LastImage.source, array, last.req[1], tile_y, caches, NoFault).tile

\* C15: with flip_y set, TransformArrayImage.get_tile(tile_x, tile_y)
\* fetches the source tile (tile_x, num_tiles_y - 1 - tile_y) and returns
\* it with its rows in the reverse order, stored in the cache under the
\* requested tile_y; with flip_y unset it fetches the source tile
\* (tile_x, tile_y) and keeps the order of the rows.
C15_FlipYMirrorsRows ==
    (IsGetTile /\ LastImage.kind = "tra") =>
        LET tile_y == last.req[2]
            fetched == IF LastImage.flip_y THEN LastImage.num_tiles[2] - 1 - tile_y
                       ELSE tile_y
            source_tile == SourceTileOfLast(fetched)
        IN  /\ last.tile.data = IF LastImage.flip_y THEN PyReverse(source_tile.data)
                                ELSE source_tile.data
            /\ ~last.hit =>
                  /\ Len(last.log) >= 2
                  /\ last.log[Len(last.log) - 1].id = LastImage.source.id
                  /\ last.log[Len(last.log) - 1].tile_x = last.req[1]
                  /\ last.log[Len(last.log) - 1].tile_y = fetched
            /\ Cache_get_value(caches[LastImage.tile_cache],
                   get_tile_id(LastImage, last.req[1], tile_y), FALSE) = last.tile

C15_Witness ==
    /\ IsGetTile
    /\ LastImage.kind = "tra"
    /\ LastImage.flip_y
    /\ ~last.hit
    /\ LastImage.num_tiles[2] = 2
    /\ last.req[2] = 0
    /\ last.log[Len(last.log) - 1].tile_y = 1
    /\ last.tile.data # SourceTileOfLast(1).data
    /\ last.tile.data # PyReverse(SourceTileOfLast(0).data)

IsColorMap == last.op = "colormap"
MaskedInSource(r, c) == last.source_tile.type = "masked" /\ last.source_tile.mask[r][c]

\* C16: the colour mapping maps every masked item of the source tile to a
\* fully transparent pixel whatever its value, and every item v that is
\* not masked to the colour of the ramp at
\* (clip(v, value_min, value_max) - value_min) / (value_max - value_min);
\* the clip unmasks no item.
C16_MaskedTransparentOthersRamp ==
    (IsColorMap /\ last.image.value_range[1] # last.image.value_range[2]) =>
        LET value_min == last.image.value_range[1]
            value_max == last.image.value_range[2]
            source == last.source_tile.data
        IN  /\ last.tile.type = IF last.image.encode THEN "png" ELSE "image"
            /\ \A r \in 1..NumRows(source) : \A c \in 1..NumCols(source) :
                  LET v == source[r][c]
                      clipped == IF v < value_min THEN value_min
                                 ELSE IF v > value_max THEN value_max ELSE v
                      color == ((clipped - value_min) * last.image.num_colors)
                                   \div (value_max - value_min)
                  IN  /\ MaskedInSource(r, c) => last.tile.mask[r][c]
                      /\ (~MaskedInSource(r, c) /\ v # NaN) =>
                            /\ ~last.tile.mask[r][c]
                            /\ last.tile.data[r][c] =
                                  IF color >= last.image.num_colors
                                  THEN last.image.num_colors - 1 ELSE color

C16_Witness ==
    /\ IsColorMap
    /\ last.image.value_range = <<NoDataValue + 1, MaxValue - 1>>
    /\ MaskedInSource(1, 1)
    /\ last.source_tile.data[1][1] = NoDataValue
    /\ last.tile.mask[1][1]
    /\ \E r \in 1..NumRows(last.tile.data) : \E c \in 1..NumCols(last.tile.data) :
          /\ ~MaskedInSource(r, c)
          /\ last.source_tile.data[r][c] = MaxValue
          /\ last.tile.data[r][c] = NumColors - 1
          /\ ~last.tile.mask[r][c]

\* C17: computing a tile on a colour mapping whose value range has zero
\* width (value_min = value_max) does not raise; the tile is a constant
\* tile (every pixel the same).
C17_ZeroWidthRangeIsGuarded ==
    (IsColorMap /\ last.image.value_range[1] = last.image.value_range[2]) =>
        /\ last.tile.type \in {"png", "image"}
        /\ \A r \in 1..NumRows(last.tile.data) : \A c \in 1..NumCols(last.tile.data) :
              /\ last.tile.data[r][c] = last.tile.data[1][1]
              /\ last.tile.mask[r][c] = last.tile.mask[1][1]

IsComputeTileGrid == last.op = "compute_tile_grid"

\* C18: compute_tile_grid raises nothing for a variable with lat and lon
\* coordinates: when the extent cannot be derived it takes the extent of
\* the whole globe and goes on, when no tile-grid decomposition exists it
\* returns the grid of one level and one level-zero tile of the size of
\* the raster, and it returns None only when lat or lon is missing.
C18_ComputeTileGridFallsBack ==
    IsComputeTileGrid =>
        LET width == Len(array.lon)
            height == Len(array.lat)
            derived == GeoExtent_from_coord_arrays(array.lon, array.lat)
            created == TileGrid_create(width, height, last.args[1], last.args[1],
                                       last.result.geo_extent.inv_y)
        IN  /\ last.result.error = ""
            /\ last.result.grid = None <=> (~array.has_lat \/ ~array.has_lon)
            /\ last.result.grid # None =>
                  /\ derived.error # "" => last.result.geo_extent = GeoExtent_default
                  /\ derived.error = "" => last.result.geo_extent = derived.extent
                  /\ created.error # "" =>
                        /\ last.result.grid.num_levels = 1
                        /\ last.result.grid.num_level_zero_tiles_x = 1
                        /\ last.result.grid.num_level_zero_tiles_y = 1
                        /\ TileGrid_tile_size(last.result.grid) = <<width, height>>
                  /\ created.error = "" => last.result.grid = created.grid

C18_Witness ==
    /\ IsComputeTileGrid
    /\ last.result.grid # None
    /\ last.result.geo_extent = GeoExtent_default
    /\ Len(array.lon) = ArrayWidth + 1
    /\ Len(array.lat) = 1
    /\ last.result.grid.num_levels = 1
    /\ TileGrid_tile_size(last.result.grid) = <<ArrayWidth + 1, 1>>

LatAscending == array.lat[1] < array.lat[Len(array.lat)]
LatDescending == array.lat[1] > array.lat[Len(array.lat)]

\* C19: the inv_y flag of the extent and of the tile grid derived for a
\* variable is true exactly when its latitude array is ascending (first
\* value < last value) and false when it is descending, in the grid of
\* _get_dataset_tile_grid and in the extent compute_tile_grid derives from
\* the coordinate arrays.
C19_InvYIffLatAscending ==
    /\ (last.op = "get_dataset_tile_grid" /\ last.result.error = "") =>
          /\ last.result.grid.inv_y <=> LatAscending
          /\ LatDescending => ~last.result.grid.inv_y
    /\ (IsComputeTileGrid /\ last.result.grid # None /\ ~last.result.warned) =>
          /\ last.result.geo_extent.inv_y <=> LatAscending
          /\ last.result.grid.inv_y <=> LatAscending
          /\ LatDescending => ~last.result.geo_extent.inv_y

C19_Witness ==
    /\ last.op = "get_dataset_tile_grid"
    /\ last.result.error = ""
    /\ LatAscending
    /\ last.result.grid.inv_y
    /\ last.result.grid.num_levels >= 2

LonWraps == array.lon[Len(array.lon)] < array.lon[1]

\* C20: for a longitude array whose cell centres wrap past +/-180 (the
\* last centre is smaller than the first) the derived extent has
\* west > east and is split into the boxes west..180 and -180..east; for an
\* array that does not wrap, west <= east and the extent is one box.
C20_WrapGivesWestGreaterEast ==
    /\ (last.op = "get_dataset_geometry" /\ last.result.error = "") =>
          LET west == last.result.bounds[1]
              east == last.result.bounds[3]
              south == last.result.bounds[2]
              north == last.result.bounds[4]
          IN  /\ LonWraps =>
                    /\ west > east
                    /\ last.result.boxes = << <<west, south, 180, north>>,
                                              <<-180, south, east, north>> >>
              /\ ~LonWraps =>
                    /\ west <= east
                    /\ last.result.boxes = << <<west, south, east, north>> >>
    /\ (IsComputeTileGrid /\ last.result.grid # None /\ ~last.result.warned) =>
          /\ last.result.geo_extent.crosses_antimeridian <=> LonWraps
          /\ LonWraps <=> last.result.geo_extent.west > last.result.geo_extent.east

\* The finer-level tile (2x + dx, 2y + dy) of the last request, reduced.
ReducedChild(dx, dy) ==
    downsample_ndarray(
        OpImage_get_tile(LastImage.source, array, 2 * last.req[1] + dx,
                         2 * last.req[2] + dy, caches, NoFault).tile)

\* The children whose reduced tile, placed at (dx * tile_width / 2,
\* dy * tile_height / 2), holds the pixel in column c and row r.
ChildrenAt(c, r) ==
    {d \in {0, 1} \X {0, 1} :
        /\ c - d[1] * (LastImage.tile_size[1] \div 2) \in 1..NumCols(ReducedChild(d[1], d[2]))
        /\ r - d[2] * (LastImage.tile_size[2] \div 2) \in 1..NumRows(ReducedChild(d[1], d[2]))}

\* C21: a child-tile downsampling image builds tile (x, y) from the four
\* finer-level tiles (2x, 2y), (2x, 2y+1), (2x+1, 2y), (2x+1, 2y+1), each
\* reduced to half the tile size; child (2x+dx, 2y+dy) lands at the pixel
\* offset (dx * tile_width / 2, dy * tile_height / 2) and the four children
\* cover every pixel of the composed tile exactly once.
C21_FourChildrenCoverOnce ==
    (IsGetTile /\ LastImage.kind = "down") =>
        /\ NumCols(last.tile.data) = LastImage.tile_size[1]
        /\ NumRows(last.tile.data) = LastImage.tile_size[2]
        /\ \A dx \in {0, 1}, dy \in {0, 1} :
              /\ 2 * NumCols(ReducedChild(dx, dy)) = LastImage.tile_size[1]
              /\ 2 * NumRows(ReducedChild(dx, dy)) = LastImage.tile_size[2]
        /\ \A r \in 1..LastImage.tile_size[2] : \A c \in 1..LastImage.tile_size[1] :
              /\ Cardinality(ChildrenAt(c, r)) = 1
              /\ \A d \in ChildrenAt(c, r) :
                    last.tile.data[r][c] =
                        ReducedChild(d[1], d[2])[r - d[2] * (LastImage.tile_size[2] \div 2)]
                                                [c - d[1] * (LastImage.tile_size[1] \div 2)]

\* C22: while a dataset stays in the dataset cache, a call for a raster
\* shape whose tile grid the dataset's tile grid cache already holds
\* returns that cached tile grid without computing a tile grid again.
C22_TileGridComputedOncePerShape ==
    [][\A ds_name \in DOMAIN caches.dataset_cache :
          \A var_name \in DOMAIN array[ds_name] :
             (/\ last'.op = "get_tile_grid"
              /\ last'.args = <<ds_name, var_name>>
              /\ tile_grid_key(array[ds_name][var_name])
                    \in DOMAIN caches.dataset_cache[ds_name].tile_grid_cache)
             => /\ ~last'.result.computed
                /\ last'.result.tile_grid =
                      caches.dataset_cache[ds_name].tile_grid_cache[
                          tile_grid_key(array[ds_name][var_name])]
                /\ caches' = caches]_vars

\* A later call for a shape of a cached dataset has returned the cached
\* tile grid of another variable of that shape.
C22_Witness ==
    /\ last.op = "get_tile_grid"
    /\ last.args = <<"a-b", "c">>
    /\ last.result.error = ""
    /\ ~last.result.computed
    /\ last.result.tile_grid # None
    /\ DOMAIN caches.dataset_cache = DsNames
    /\ "tg_4_2" \in DOMAIN caches.dataset_cache["a"].tile_grid_cache

\* C27: when the service configuration is replaced, every cached dataset
\* that the new configuration still configures stays in the dataset cache
\* and is not closed, every cached dataset that is no longer configured is
\* closed and removed from the dataset cache, and the assignment does not
\* raise.
C27_ConfigKeepsConfiguredDatasets ==
    [][(last'.op = "config" /\ last' # last) =>
          /\ last'.result.error = ""
          /\ \A ds_name \in DOMAIN caches.dataset_cache :
                IF ds_name \in cfg'.Datasets
                THEN /\ ds_name \in DOMAIN caches'.dataset_cache
                     /\ ds_name \notin last'.result.closed
                ELSE /\ ds_name \notin DOMAIN caches'.dataset_cache
                     /\ ds_name \in last'.result.closed]_vars

\* The tile grid spans at least width x height pixels at its finest level.
Covers(grid, width, height) ==
    /\ grid.tile_width * grid.num_level_zero_tiles_x * Pow2(grid.num_levels - 1) >= width
    /\ grid.tile_height * grid.num_level_zero_tiles_y * Pow2(grid.num_levels - 1) >= height

\* C23: every tile grid the code constructs covers its raster, tile_width *
\* num_level_zero_tiles_x * 2^(num_levels-1) >= width and likewise for the
\* height, including the grid built for a stored multi-level dataset from
\* its level count and chunk size and the single-level fallback grid.
C23_TileGridCoversRaster ==
    /\ (last.op = "get_dataset_tile_grid" /\ last.result.error = "")
          => Covers(last.result.grid, Len(array.lon), Len(array.lat))
    /\ (last.op = "compute_tile_grid" /\ array.has_lat /\ array.has_lon)
          => Covers(last.result.grid, Len(array.lon), Len(array.lat))

\* C24: for a direct-strided image with stride s and tile size (tw, th),
\* the tile returned for (tile_x, tile_y) has exactly the size (tw, th) and
\* its pixel in column j, row i is source[(tile_y*th + i)*s, (tile_x*tw + j)*s]
\* where that index lies inside the source array and the fill value elsewhere.
C24_StridedTileExact ==
    last.op = "strided" =>
        /\ last.tile.type = "ndarray"
        /\ NumRows(last.tile.data) = last.image.tile_size[2]
        /\ \A r \in 1..last.image.tile_size[2] :
              /\ Len(last.tile.data[r]) = last.image.tile_size[1]
              /\ \A c \in 1..last.image.tile_size[1] :
                    last.tile.data[r][c] =
                        StridedItem(array, last.image.step_size, last.image.tile_size,
                                    last.args[1], last.args[2], c, r)

\* A tile at stride 2 that holds a source item beyond the image's own
\* width and the fill value beyond the source.
C24_Witness ==
    /\ last.op = "strided"
    /\ last.image.step_size = 2
    /\ last.image.tile_size = <<3, 2>>
    /\ NumCols(array) = 3
    /\ array[1][3] # NaN
    /\ last.tile.data[1][2] = array[1][3]
    /\ last.tile.data[1][3] = NaN
    /\ last.tile.data[2][1] = NaN

\* C25: under concurrent get_dataset(index) calls on one
\* LazyMultiLevelDataset, get_dataset_lazily is invoked at most once per
\* level index and all callers receive the same dataset object; likewise
\* get_tile_grid_lazily is invoked at most once under concurrent tile_grid
\* accesses.
C25_LazilyAtMostOnce ==
    /\ \A i \in LevelIndexes : caches.lazily[i] <= 1
    /\ caches.grid_lazily <= 1
    /\ \A t1 \in Threads, t2 \in Threads :
          (/\ threads[t1].pc = "idle" /\ threads[t2].pc = "idle"
           /\ threads[t1].call.op # "none"
           /\ threads[t1].call = threads[t2].call)
          => threads[t1].result = threads[t2].result

IsTileRequest == last.op = "get_dataset_tile"

\* C26: in every variant of the tile-request entry point, once a request
\* has built the pyramid for a parameter combination, a later request with
\* the same combination finds that pyramid in the pyramid cache and does
\* not build it again.
C26_PyramidBuiltOncePerCombination ==
    [][(/\ last'.op = "get_dataset_tile"
        /\ \E k \in DOMAIN caches.pyramid_cache :
              caches.pyramid_cache[k].request = last'.req)
       => /\ ~last'.built
          /\ last'.pyramid.request = last'.req]_vars

\* The colour parameter of the request, or the default when it is absent.
Supplied(param, default) == IF param = None THEN default ELSE param[1]

\* The colour mapping the request asks for.
RequestedMapping ==
    [cbar |-> Supplied(last.req.cbar, cfg.color_mapping[1]),
     vmin |-> Supplied(last.req.vmin, cfg.color_mapping[2]),
     vmax |-> Supplied(last.req.vmax, cfg.color_mapping[3])]

\* C28: a cbar, vmin or vmax value supplied with a tile request is the
\* value used for the colour mapping and for the pyramid key; the
\* configured default is used only for a parameter that is absent, also
\* for vmin = 0 or vmax = 0 with another parameter absent.
C28_SuppliedValuesAreUsed ==
    IsTileRequest =>
        /\ last.cmap = RequestedMapping
        /\ last.image_id = image_id(cfg.variant, last.req, RequestedMapping)

\* What the array of a pyramid shows: the variable and the time index.
ArrayOf(shows) == <<shows.ds_name, shows.var_name, shows.index>>

\* C29: two tile requests that differ in dataset, variable, indexer
\* values, colour bar, vmin or vmax (after the defaults are applied) never
\* get the same pyramid key, and their images never share a tile-cache key:
\* the pyramid used for a request shows the request's combination, the
\* colour-mapped images of pyramids of different combinations have
\* different ids, and so have the array images of different arrays.
C29_KeysSeparateCombinations ==
    IsTileRequest =>
        /\ last.pyramid.shows = Combination(last.req, last.cmap)
        /\ \A k \in DOMAIN caches.pyramid_cache :
              LET p == caches.pyramid_cache[k]
              IN  /\ p.shows # Combination(last.req, last.cmap)
                        => /\ p.rgb_id # last.pyramid.rgb_id
                           /\ k # pyramid_id_stored(cfg.variant, last.image_id)
                  /\ ArrayOf(p.shows) # ArrayOf(Combination(last.req, last.cmap))
                        => /\ p.tra_id # last.pyramid.tra_id
                           /\ p.arr_id # last.pyramid.arr_id

\* C30: for a BaseMultiLevelDataset, level 0 is the base dataset itself,
\* level index holds every (2^index)-th cell of the base dataset, and the
\* spatial sizes satisfy size[index + 1] = (size[index] + 1) // 2 in both
\* dimensions.
C30_LevelSizesHalveUp ==
    last.op = "get_dataset_lazily" =>
        LET index == last.args[1]
            level == last.tile.data
            next == BaseMultiLevelDataset_get_dataset_lazily(array, index + 1)
        IN  /\ index = 0 => level = array
            /\ NumRows(next) = (NumRows(level) + 1) \div 2
            /\ NumCols(next) = (NumCols(level) + 1) \div 2
            /\ \A r \in 1..NumRows(level) :
                  /\ Len(level[r]) = NumCols(level)
                  /\ \A c \in 1..NumCols(level) :
                        level[r][c] = array[(r - 1) * Pow2(index) + 1][(c - 1) * Pow2(index) + 1]

\* Level 1 of a base of odd width: two columns of three are kept and the
\* next level has one.
C30_Witness ==
    /\ last.op = "get_dataset_lazily"
    /\ last.args = <<1>>
    /\ NumCols(array) = 3
    /\ NumCols(last.tile.data) = 2
    /\ last.tile.data[1][2] = array[1][3]
    /\ NumCols(BaseMultiLevelDataset_get_dataset_lazily(array, 2)) = 1

====
